---- MODULE Spec2Model ----
(***************************************************************************)
(* A model of the bidirectional speech-to-speech session manager           *)
(* (sonic/websocket/s2s_session_manager.py): one S2sSessionManager object, *)
(* the coroutines that run on its asyncio event loop (a front-end caller,  *)
(* the response task _process_responses, the audio task                    *)
(* _process_audio_input, the tool tasks _handle_tool_processing) and the   *)
(* backend stream it talks to; and, of the agent runtime variant           *)
(* (strands/websocket/server.py), the process-wide credential refresher    *)
(* and the input handler of a websocket connection.                        *)
(*                                                                         *)
(* asyncio is cooperative: a coroutine runs without interruption from one  *)
(* await that really suspends to the next.  Every action below is one such *)
(* uninterrupted run.  The wall-clock "timestamp" stamped on egress        *)
(* records is not represented.                                             *)
(***************************************************************************)
EXTENDS Integers, Sequences, FiniteSets, TLC

\* ---------------------------------------------------------------- bounds
\* The queue capacities of the source are 100 and 200; the model checks the
\* same code paths with the capacities scaled down to these.
AudioQueueMaxsize == 2
OutputQueueMaxsize == 2
\* Number of response/audio task pairs (one per successful
\* initialize_stream()) the model has room for.
MaxInit == 2
\* Number of tool tasks the model has room for.
MaxTools == 3

None == "None"
Pumps == 1..MaxInit
TaskIds == 1..MaxTools

VARIABLES
    is_active,              \* self.is_active
    stream,                 \* self.stream: 0 is None, n the n-th stream opened
    response_task,          \* self.response_task: 0 is None, else a pump id
    bedrock_client,         \* self.bedrock_client is set
    audio_input_queue,      \* self.audio_input_queue (FIFO of audio records)
    output_queue,           \* self.output_queue (FIFO of egress records)
    prompt_name,            \* self.prompt_name
    content_name,           \* self.content_name
    audio_content_name,     \* self.audio_content_name
    toolUseContent,         \* self.toolUseContent
    toolUseId,              \* self.toolUseId
    toolName,               \* self.toolName
    tool_processing_tasks,  \* self.tool_processing_tasks (set of task ids)
    tasks,                  \* the tool tasks ever created, by id
    egress,                 \* the response tasks (_process_responses), by id
    ingress,                \* the audio tasks (_process_audio_input), by id
    fe,                     \* the front-end coroutine calling the public methods
    backend_in,             \* what was written to stream.input_stream, in order
    egress_log,             \* every record ever put on the output queue, in order
    closed_streams,         \* streams whose input_stream.close() was called
    recv_count,             \* chunks delivered by the backend so far
    audio_count,            \* add_audio_chunk() calls so far
    fe_sends,               \* send_raw_event() calls by the front end so far
    script,                 \* remaining steps of the front end's scenario
    init_count,             \* initialize_stream() calls so far
    returned,               \* the calls that returned in the last step
    audio_log,              \* every record add_audio_chunk() queued, in order
    last_recv,              \* the last chunk of the backend: its kind, its reader
    tool_call,              \* a direct call of processToolUse: arguments, result
    \* strands/websocket/server.py
    now,                    \* the wall clock, in seconds
    environ,                \* os.environ: the three credential variables
    credential_refresh_task,\* _credential_refresh_task: 0 is None, else a task id
    refresh_tasks,          \* the refresh_credentials_from_imds tasks, by id
    imds,                   \* every result of get_credentials_from_imds(), in order
    server,                 \* startup_event/shutdown_event: calls so far, position
    websocket,              \* the messages the client has yet to send
    agent_sent,             \* the arguments of agent.send(), in order
    ws_input                \* handle_websocket_input: its position, what it returned

vars == <<is_active, stream, response_task, bedrock_client, audio_input_queue,
          output_queue, prompt_name, content_name, audio_content_name,
          toolUseContent, toolUseId, toolName, tool_processing_tasks, tasks,
          egress, ingress, fe, backend_in, egress_log, closed_streams,
          recv_count, audio_count, fe_sends, script, init_count, returned,
          audio_log, last_recv, tool_call, now, environ, credential_refresh_task,
          refresh_tasks, imds, server, websocket, agent_sent, ws_input>>

\* The state of one S2sSessionManager and its tasks.
managerVars == <<is_active, stream, response_task, bedrock_client,
                 audio_input_queue, output_queue, prompt_name, content_name,
                 audio_content_name, toolUseContent, toolUseId, toolName,
                 tool_processing_tasks, tasks, egress, ingress, fe, backend_in,
                 egress_log, closed_streams, recv_count, audio_count, fe_sends,
                 init_count, returned, audio_log, last_recv>>
sessionVars == <<managerVars, tool_call>>
\* The state of the credential refresher and of the websocket input handler.
credentialVars == <<now, environ, credential_refresh_task, refresh_tasks, imds,
                    server>>
wsVars == <<websocket, agent_sent, ws_input>>
serverVars == <<credentialVars, wsVars>>

\* ---------------------------------------------------------------- events
\* An envelope {"event": {<name>: {...}}}: its name and the fields the
\* session manager reads or writes.  seq is the position of an inbound
\* envelope in the backend's output (0 for envelopes built locally).
Envelope(name, pn, cn, ty, role, id, tn, content, seq) ==
    [name |-> name, promptName |-> pn, contentName |-> cn, type |-> ty,
     role |-> role, toolUseId |-> id, toolName |-> tn, content |-> content,
     seq |-> seq]

NoEnvelope == Envelope(None, "", "", "", "", "", "", "", 0)

audio_input(pn, cn, content) ==
    Envelope("audioInput", pn, cn, "", "", "", "", content, 0)

content_start_tool(pn, cn, id) ==
    Envelope("contentStart", pn, cn, "TOOL", "TOOL", id, "", "", 0)

text_input_tool(pn, cn, content) ==
    Envelope("toolResult", pn, cn, "", "", "", "", content, 0)

content_end(pn, cn) ==
    Envelope("contentEnd", pn, cn, "", "", "", "", "", 0)

content_start_audio(pn, cn) ==
    Envelope("contentStart", pn, cn, "AUDIO", "USER", "", "", "", 0)

prompt_start(pn) ==
    Envelope("promptStart", pn, "", "", "", "", "", "", 0)

session_end ==
    Envelope("sessionEnd", "", "", "", "", "", "", "", 0)

\* The envelopes of the front end, by name.
FeEnvelope(name) ==
    CASE name = "promptStart" -> prompt_start("p")
      [] name = "contentStart" -> content_start_audio("p", "a")
      [] name = "contentEnd" -> content_end("p", "a")
      [] name = "sessionEnd" -> session_end
      [] OTHER -> Envelope(name, "p", "", "", "", "", "", "", 0)

\* What one receive on the backend's output yields.  kind is
\*   "event"      bytes that decode to an envelope (ev),
\*   "badjson"    UTF-8 text that is not JSON (json.JSONDecodeError),
\*   "badutf8"    bytes that are not UTF-8 (UnicodeDecodeError),
\*   "validation" an exception whose text contains ValidationException,
\*   "exception"  any other exception,
\*   "eos"        StopAsyncIteration,
\*   "empty"      a result without bytes.
Chunk(kind, ev) == [kind |-> kind, ev |-> ev]

ToolUseEv(tn, id, content) ==
    Envelope("toolUse", "p", "", "", "", id, tn, content, 0)
ContentEndEv(ty) ==
    Envelope("contentEnd", "p", "", ty, "", "", "", "", 0)
TextOutputEv ==
    Envelope("textOutput", "p", "", "", "", "", "", "", 0)

\* The records the response task itself puts on the output queue.
RawData(seq) == Envelope("raw_data", "", "", "", "", "", "", "", seq)
ErrorEnvelope(seq) ==
    Envelope("error", "", "", "", "", "", "", "Validation error", seq)

\* self.toolUseContent is "" until a toolUse arrives and the toolUse dict after.
NoToolUseContent == [dict |-> FALSE, content |-> ""]
ToolUseContent(ev) == [dict |-> TRUE, content |-> ev.content]

\* An audio record as add_audio_chunk() queues it.
AudioRecord(pn, cn, bytes) ==
    [prompt_name |-> pn, content_name |-> cn, audio_bytes |-> bytes]
NoRecord == AudioRecord("", "", "")
AudioBytes == <<"a1", "a2", "a3", "a4", "a5", "a6">>

\* uuid.uuid4() for the n-th tool task: a value no other task gets.
Uuid == <<"uuid-1", "uuid-2", "uuid-3", "uuid-4", "uuid-5">>

\* ---------------------------------------------------------------- tasks
NoTask ==
    [pc |-> "none", pos |-> 0, cancel |-> FALSE,
     prompt_name |-> "", tool_name |-> "", tool_use_content |-> NoToolUseContent,
     tool_use_id |-> "", toolContent |-> "", toolResult |-> "",
     outcome |-> "", failed |-> FALSE, seq |-> 0, active |-> FALSE]
NoEgress == [pc |-> "none", cancel |-> FALSE, item |-> NoEnvelope, outcome |-> ""]
NoIngress == [pc |-> "none", item |-> NoRecord]
NoScript == [id |-> "none", todo |-> <<>>]
NoRecv == [kind |-> "none", by |-> 0]
NoCall ==
    [pc |-> "none", toolName |-> <<>>, is_str |-> TRUE,
     toolUseContent |-> NoToolUseContent, result |-> ""]
FeIdle ==
    [pc |-> "idle", ev |-> NoEnvelope, ok |-> TRUE, in_send |-> FALSE,
     gathered |-> {}, awaited |-> 0]

\* ------------------------------------------------------- server.py: state
\* Number of refresh tasks the model has room for.
MaxRefreshTasks == 2
RefreshIds == 1..MaxRefreshTasks

\* One credential variable of os.environ: unset, or set to the value the
\* from-th result of IMDS carried (from 0: a value the process started with).
Unset == [set |-> FALSE, from |-> 0]
SetFrom(n) == [set |-> TRUE, from |-> n]
NoCredentials ==
    [AWS_ACCESS_KEY_ID |-> Unset, AWS_SECRET_ACCESS_KEY |-> Unset,
     AWS_SESSION_TOKEN |-> Unset]
\* Local mode: the process is started with static credentials.
StaticCredentials ==
    [AWS_ACCESS_KEY_ID |-> SetFrom(0), AWS_SECRET_ACCESS_KEY |-> SetFrom(0),
     AWS_SESSION_TOKEN |-> Unset]

\* What get_credentials_from_imds() returns: success, and for a success
\* whether "Expiration" parses as an ISO date and the instant it names.
\* lacks names the first of AccessKeyId, SecretAccessKey and Token that the
\* body IMDS answered with does not carry (credentials.get gives None for
\* it, lines 81-83), "none" when it carries all three.
ImdsResult(success, parses, expiration) ==
    [success |-> success, parses |-> parses, expiration |-> expiration,
     lacks |-> "none"]
\* A success whose body lacks the key.
ImdsLacking(key) ==
    [success |-> TRUE, parses |-> FALSE, expiration |-> 0, lacks |-> key]

\* A refresh task: sleeping until wake after a fetch that went as `after`
\* says ("success", "failure").
NoRefresh ==
    [pc |-> "none", wake |-> 0, cancel |-> FALSE, after |-> "", outcome |-> ""]
ServerIdle == [startups |-> 0, shutdown |-> "no"]
\* handle_websocket_input: where it stands, its calls so far, the messages
\* it has received and those it has returned, in order.
NoWsInput == [pc |-> "none", calls |-> 0, received |-> <<>>, returned |-> <<>>]

\* The server process before startup_event, with env in os.environ and the
\* client about to send msgs.
InitServer(env, msgs) ==
    /\ now = 0
    /\ environ = env
    /\ credential_refresh_task = 0
    /\ refresh_tasks = [t \in RefreshIds |-> NoRefresh]
    /\ imds = <<>>
    /\ server = ServerIdle
    /\ websocket = msgs
    /\ agent_sent = <<>>
    /\ ws_input = NoWsInput

\* ------------------------------------------------------------------ Init
\* S2sSessionManager.__init__: the state right after construction.
InitSession ==
    /\ is_active = FALSE
    /\ stream = 0
    /\ response_task = 0
    /\ bedrock_client = FALSE
    /\ audio_input_queue = <<>>
    /\ output_queue = <<>>
    /\ prompt_name = None
    /\ content_name = None
    /\ audio_content_name = None
    /\ toolUseContent = NoToolUseContent
    /\ toolUseId = ""
    /\ toolName = ""
    /\ tool_processing_tasks = {}
    /\ tasks = [t \in TaskIds |-> NoTask]
    /\ egress = [i \in Pumps |-> NoEgress]
    /\ ingress = [i \in Pumps |-> NoIngress]
    /\ fe = FeIdle
    /\ backend_in = <<>>
    /\ egress_log = <<>>
    /\ closed_streams = {}
    /\ recv_count = 0
    /\ audio_count = 0
    /\ fe_sends = 0
    /\ init_count = 0
    /\ returned = {}
    /\ audio_log = <<>>
    /\ last_recv = NoRecv

nameVars == <<prompt_name, content_name, audio_content_name>>
toolVars == <<toolUseContent, toolUseId, toolName>>
countVars == <<recv_count, audio_count, fe_sends, init_count, audio_log, last_recv>>

\* ------------------------------------------------------- send_raw_event
\* A guard of line 147 that looks at the stream only.
SendAllowedStreamOnly == stream # 0

\* send_raw_event line 147: the event is written only when this holds.
SendAllowed == stream # 0 /\ is_active

\* stream.input_stream.send(event): a write that succeeds adds the event to
\* what the backend has received; one that raises adds nothing.
WriteToBackend(log, ev, ok) == IF ok THEN Append(log, ev) ELSE log

\* The records a step added to the output queue, which then holds q: every
\* step that puts only appends.
Added(q) == SubSeq(q, Len(output_queue) + 1, Len(q))

\* A put_nowait on a queue built without maxsize.
PutNowaitUnbounded(q, item, maxsize) == Append(q, item)

\* A full queue that makes room by dropping its oldest record.
PutNowaitDropOldest(q, item, maxsize) ==
    IF Len(q) < maxsize THEN Append(q, item) ELSE Append(Tail(q), item)

\* A queue that hands out its newest record first.
PutNowaitFront(q, item, maxsize) == IF Len(q) < maxsize THEN <<item>> \o q ELSE q

\* output_queue.put_nowait(item) with QueueFull swallowed: drop when full.
PutNowait(q, item, maxsize) == IF Len(q) < maxsize THEN Append(q, item) ELSE q

\* -------------------------------------------------------- processToolUse
\* A toolName the backend sent as a JSON number: it has no .lower(), and the
\* call at line 381, outside the try of processToolUse, raises.
NonStringName == "<number>"
LowerRaises(tn) == tn = NonStringName

\* A tool name is the sequence of its characters.
UpperCase ==
    <<"A", "B", "C", "D", "E", "F", "G", "H", "I", "J", "K", "L", "M",
      "N", "O", "P", "Q", "R", "S", "T", "U", "V", "W", "X", "Y", "Z">>
LowerCase ==
    <<"a", "b", "c", "d", "e", "f", "g", "h", "i", "j", "k", "l", "m",
      "n", "o", "p", "q", "r", "s", "t", "u", "v", "w", "x", "y", "z">>

\* A comparison of names that keeps the case.
LowerKeepsCase(name) == name

\* str.lower(): every upper-case letter becomes its lower-case letter, every
\* other character stays.
LowerChar(c) ==
    IF \E k \in 1..Len(UpperCase) : UpperCase[k] = c
    THEN LowerCase[CHOOSE k \in 1..Len(UpperCase) : UpperCase[k] = c]
    ELSE c
Lower(name) == [k \in 1..Len(name) |-> LowerChar(name[k])]

\* The literal "getdatetool" of line 392.
getdatetool == <<"g", "e", "t", "d", "a", "t", "e", "t", "o", "o", "l">>

\* The characters of the tool names the backend sends in the session runs.
Spelling(tn) ==
    CASE tn = "getDateTool" ->
            <<"g", "e", "t", "D", "a", "t", "e", "T", "o", "o", "l">>
      [] tn = "GETDATETOOL" ->
            <<"G", "E", "T", "D", "A", "T", "E", "T", "O", "O", "L">>
      [] tn = "getdatetool" -> getdatetool
      [] tn = "OtherTool" -> <<"O", "t", "h", "e", "r", "T", "o", "o", "l">>
      [] OTHER -> <<>>

ToolErrorResult ==
    "An error occurred while attempting to retrieve information related to the toolUse event."

\* The string the dispatch sends as the toolResult content: json.dumps of the
\* dict processToolUse returns.  A toolUseContent that is not a dict makes
\* .get raise inside the try, which yields the fixed error result.
processToolUse(name, tuc) ==
    IF ~tuc.dict THEN ToolErrorResult
    ELSE IF Lower(name) = getdatetool THEN "date in UTC"
    ELSE "no result found"

\* ------------------------------------------------ _handle_tool_processing
\* A tool task does six things in order after the handler returned:
\* pos 1 send contentStart, 2 put it, 3 send toolResult, 4 put it,
\* 5 send contentEnd, 6 put it; pos 7 is the end of the coroutine.
\* A dispatch that draws a second uuid for its contentEnd.
ToolEventSecondUuid(T, pos) ==
    CASE pos \in {1, 2} ->
            content_start_tool(T.prompt_name, T.toolContent, T.tool_use_id)
      [] pos \in {3, 4} ->
            text_input_tool(T.prompt_name, T.toolContent, T.toolResult)
      [] OTHER -> content_end(T.prompt_name, "uuid-second")

\* A dispatch that passes the tool name where the toolUseId belongs.
ToolEventNameForId(T, pos) ==
    CASE pos \in {1, 2} ->
            content_start_tool(T.prompt_name, T.toolContent, T.tool_name)
      [] pos \in {3, 4} ->
            text_input_tool(T.prompt_name, T.toolContent, T.toolResult)
      [] OTHER -> content_end(T.prompt_name, T.toolContent)

\* A dispatch that reads the toolUseId of the session when it builds its
\* contentStart, instead of the one it was given.
ToolEventCurrentId(T, pos) ==
    CASE pos \in {1, 2} ->
            content_start_tool(T.prompt_name, T.toolContent, toolUseId)
      [] pos \in {3, 4} ->
            text_input_tool(T.prompt_name, T.toolContent, T.toolResult)
      [] OTHER -> content_end(T.prompt_name, T.toolContent)

ToolEvent(T, pos) ==
    CASE pos \in {1, 2} ->
            content_start_tool(T.prompt_name, T.toolContent, T.tool_use_id)
      [] pos \in {3, 4} ->
            text_input_tool(T.prompt_name, T.toolContent, T.toolResult)
      [] OTHER -> content_end(T.prompt_name, T.toolContent)

\* Run the task T from position pos until it suspends or ends: a send that
\* passes the guard of send_raw_event suspends in input_stream.send; one that
\* does not returns at once; a put suspends only when the queue is full.
RECURSIVE ToolRun(_, _, _, _, _)
ToolRun(T, pos, q, log, ok) ==
    IF pos = 7 THEN [pc |-> "done", pos |-> 7, q |-> q, log |-> log]
    ELSE IF pos % 2 = 1
    THEN IF SendAllowed
         THEN [pc |-> "send", pos |-> pos, q |-> q,
               log |-> WriteToBackend(log, ToolEvent(T, pos), ok)]
         ELSE ToolRun(T, pos + 1, q, log, ok)
    ELSE IF Len(q) < OutputQueueMaxsize
         THEN ToolRun(T, pos + 1, Append(q, ToolEvent(T, pos)), log, ok)
         ELSE [pc |-> "put", pos |-> pos, q |-> q, log |-> log]

\* The task t, now T, has run up to the state r ToolRun gives.
ToolSettle(t, T, r, ok) ==
    /\ tasks' = [tasks EXCEPT ![t] =
                    [T EXCEPT !.pc = r.pc, !.pos = r.pos,
                              !.failed = @ \/ (r.pc = "send" /\ ~ok),
                              !.outcome = IF r.pc = "done" THEN "finished" ELSE ""]]
    /\ output_queue' = r.q
    /\ egress_log' = egress_log \o Added(r.q)
    /\ backend_in' = r.log
    \* task.add_done_callback(self.tool_processing_tasks.discard)
    /\ tool_processing_tasks' =
          IF r.pc = "done" THEN tool_processing_tasks \ {t}
          ELSE tool_processing_tasks
    /\ returned' = {}
    /\ UNCHANGED <<is_active, stream, response_task, bedrock_client,
                   audio_input_queue, nameVars, toolVars, egress, ingress, fe,
                   closed_streams, countVars>>
    /\ UNCHANGED <<script, serverVars, tool_call>>

\* First run of a tool task: the handler, the uuid, then the first events.
\* When processToolUse raises, the except Exception of the task logs it and
\* the task ends having emitted nothing.
ToolStart(t, ok) ==
    /\ tasks[t].pc = "new"
    /\ ~tasks[t].cancel
    /\ IF LowerRaises(tasks[t].tool_name)
       THEN ToolSettle(t, tasks[t],
                       [pc |-> "done", pos |-> 7, q |-> output_queue,
                        log |-> backend_in], ok)
       ELSE LET T == [tasks[t] EXCEPT
                        !.toolResult = processToolUse(Spelling(tasks[t].tool_name),
                                                      tasks[t].tool_use_content),
                        !.toolContent = Uuid[t]]
            IN ToolSettle(t, T, ToolRun(T, 1, output_queue, backend_in, ok), ok)

\* input_stream.send returned (or raised, which send_raw_event swallows).
ToolSendDone(t, ok) ==
    /\ tasks[t].pc = "send"
    /\ ~tasks[t].cancel
    /\ ToolSettle(t, tasks[t],
                  ToolRun(tasks[t], tasks[t].pos + 1, output_queue, backend_in, ok),
                  ok)

\* A put that waited for room in the output queue goes on.
ToolPutWake(t, ok) ==
    /\ tasks[t].pc = "put"
    /\ ~tasks[t].cancel
    /\ Len(output_queue) < OutputQueueMaxsize
    /\ ToolSettle(t, tasks[t],
                  ToolRun(tasks[t], tasks[t].pos, output_queue, backend_in, ok), ok)

\* task.cancel() was called: CancelledError is raised at the task's await (or
\* before its first step); neither except Exception catches it.
ToolCancelled(t) ==
    /\ tasks[t].pc \in {"new", "send", "put"}
    /\ tasks[t].cancel
    /\ tasks' = [tasks EXCEPT ![t].pc = "done", ![t].outcome = "cancelled"]
    /\ tool_processing_tasks' = tool_processing_tasks \ {t}
    /\ returned' = {}
    /\ UNCHANGED <<is_active, stream, response_task, bedrock_client,
                   audio_input_queue, output_queue, nameVars, toolVars, egress,
                   ingress, fe, backend_in, egress_log, closed_streams, countVars>>
    /\ UNCHANGED <<script, serverVars, tool_call>>

\* ---------------------------------------------------- _process_responses
NextTaskId == Cardinality({t \in TaskIds : tasks[t].pc # "none"}) + 1

\* Top of `while self.is_active:` followed by self.stream.await_output().
\* With is_active true and stream None the attribute access raises, which
\* the generic handler turns into a break.
EgressStays == is_active /\ stream # 0

\* The response task i is back at the top of its loop with the output queue
\* q: it waits for the next chunk, or leaves the loop (lines 321-323: set
\* is_active False and call close(), which then finds is_active False and
\* returns at once).
EgressLoop(i, q) ==
    /\ output_queue' = q
    /\ egress_log' = egress_log \o Added(q)
    /\ IF EgressStays
       THEN /\ egress' = [egress EXCEPT ![i].pc = "recv", ![i].item = NoEnvelope]
            /\ is_active' = is_active
            /\ returned' = {}
       ELSE /\ egress' = [egress EXCEPT ![i].pc = "done", ![i].item = NoEnvelope,
                                        ![i].outcome = "exited"]
            /\ is_active' = FALSE
            /\ returned' = {"close"}

\* The loop is left by break (StopAsyncIteration or a non-validation error).
EgressBreak(i) ==
    /\ egress' = [egress EXCEPT ![i].pc = "done", ![i].outcome = "exited"]
    /\ is_active' = FALSE
    /\ returned' = {"close"}

\* The first step of the response task.
EgressStart(i) ==
    /\ egress[i].pc = "new"
    /\ ~egress[i].cancel
    /\ EgressLoop(i, output_queue)
    /\ UNCHANGED <<stream, response_task, bedrock_client, audio_input_queue,
                   nameVars, toolVars, tool_processing_tasks, tasks, ingress, fe,
                   backend_in, closed_streams, countVars>>
    /\ UNCHANGED <<script, serverVars, tool_call>>

\* A response task that awaits the dispatch itself instead of handing it to
\* a task of its own: after a contentEnd of type TOOL it waits (pc "tool")
\* until the dispatch is over.
EgressRecvEventAwaitsTool(i, ev0) ==
    LET ev == [ev0 EXCEPT !.seq = recv_count + 1]
        isToolUse == ev.name = "toolUse"
        isToolEnd == ev.name = "contentEnd" /\ ev.type = "TOOL"
        t == NextTaskId
    IN
    /\ egress[i].pc = "recv"
    /\ ~egress[i].cancel
    /\ isToolEnd => t <= MaxTools
    /\ recv_count' = recv_count + 1
    /\ last_recv' = [kind |-> "event", by |-> i]
    /\ IF isToolUse
       THEN /\ toolUseContent' = ToolUseContent(ev)
            /\ toolName' = ev.toolName
            /\ toolUseId' = ev.toolUseId
       ELSE UNCHANGED toolVars
    /\ IF ~isToolUse /\ isToolEnd
       THEN /\ tasks' = [tasks EXCEPT ![t] =
                           [NoTask EXCEPT !.pc = "new", !.pos = 1,
                                          !.prompt_name = ev.promptName,
                                          !.tool_name = toolName,
                                          !.tool_use_content = toolUseContent,
                                          !.tool_use_id = toolUseId,
                                          !.seq = ev.seq,
                                          !.active = is_active]]
            /\ tool_processing_tasks' = tool_processing_tasks \cup {t}
            /\ egress' = [egress EXCEPT ![i].pc = "tool", ![i].item = ev]
            /\ UNCHANGED <<output_queue, egress_log, is_active>>
            /\ returned' = {}
       ELSE /\ UNCHANGED <<tasks, tool_processing_tasks>>
            /\ EgressLoop(i, PutNowait(output_queue, ev, OutputQueueMaxsize))
    /\ UNCHANGED <<stream, response_task, bedrock_client, audio_input_queue,
                   nameVars, ingress, fe, backend_in, closed_streams,
                   audio_count, fe_sends, init_count, audio_log>>
    /\ UNCHANGED <<script, serverVars, tool_call>>

\* A chunk that decodes to the envelope ev arrives (lines 229-289).
EgressRecvEvent(i, ev0) ==
    LET ev == [ev0 EXCEPT !.seq = recv_count + 1]
        isToolUse == ev.name = "toolUse"
        isToolEnd == ev.name = "contentEnd" /\ ev.type = "TOOL"
        t == NextTaskId
    IN
    /\ egress[i].pc = "recv"
    /\ ~egress[i].cancel
    /\ isToolEnd => t <= MaxTools
    /\ recv_count' = recv_count + 1
    /\ last_recv' = [kind |-> "event", by |-> i]
    /\ IF isToolUse
       THEN /\ toolUseContent' = ToolUseContent(ev)
            /\ toolName' = ev.toolName
            /\ toolUseId' = ev.toolUseId
       ELSE UNCHANGED toolVars
    /\ IF ~isToolUse /\ isToolEnd
       THEN /\ tasks' = [tasks EXCEPT ![t] =
                           [NoTask EXCEPT !.pc = "new", !.pos = 1,
                                          !.prompt_name = ev.promptName,
                                          !.tool_name = toolName,
                                          !.tool_use_content = toolUseContent,
                                          !.tool_use_id = toolUseId,
                                          !.seq = ev.seq,
                                          !.active = is_active]]
            /\ tool_processing_tasks' = tool_processing_tasks \cup {t}
       ELSE UNCHANGED <<tasks, tool_processing_tasks>>
    /\ EgressLoop(i, PutNowait(output_queue, ev, OutputQueueMaxsize))
    /\ UNCHANGED <<stream, response_task, bedrock_client, audio_input_queue,
                   nameVars, ingress, fe, backend_in, closed_streams,
                   audio_count, fe_sends, init_count, audio_log>>
    /\ UNCHANGED <<script, serverVars, tool_call>>

\* What json.loads made of a chunk, as far as lines 234-277 look at it:
\* shape is the kind of JSON value; event tells what json_data["event"] is:
\* "absent" (no such key), "null" (not an object), "empty" (the object {}),
\* or the first key of the object; toolName and toolUseId tell whether a
\* toolUse carries these keys.
JsonValue(shape, event, has_name, has_id) ==
    [shape |-> shape, event |-> event, toolName |-> has_name, toolUseId |-> has_id]

\* A response task that takes the first key of the event object only when
\* there is one.
RaisesUnlessEmpty(js) ==
    IF js.shape # "object" THEN "TypeError"
    ELSE IF js.event \in {"absent", "empty"} THEN ""
    ELSE IF js.event = "null" THEN "AttributeError"
    ELSE IF js.event = "toolUse" /\ ~(js.toolName /\ js.toolUseId) THEN "KeyError"
    ELSE ""

\* The exception lines 234-253 raise for the value js ("" for none):
\* json_data["timestamp"] = .. on a value that is not an object (line 234),
\* .keys() on an event that is not an object and [0] on the empty list of
\* keys (line 240), ["toolName"] and ["toolUseId"] on a toolUse without the
\* key (lines 252-253).
Raises(js) ==
    IF js.shape # "object" THEN "TypeError"
    ELSE IF js.event = "absent" THEN ""
    ELSE IF js.event = "null" THEN "AttributeError"
    ELSE IF js.event = "empty" THEN "IndexError"
    ELSE IF js.event = "toolUse" /\ ~(js.toolName /\ js.toolUseId) THEN "KeyError"
    ELSE ""

\* The envelope a well-formed value with an event stands for, id being the
\* toolUseId of a toolUse.
EnvelopeOf(js, id) ==
    IF js.event = "toolUse" THEN ToolUseEv("getDateTool", id, "{}")
    ELSE TextOutputEv

\* A chunk that is JSON arrives (lines 229-289, 300-319).  A value the
\* lines 234-253 raise for is handled by `except Exception`: the text of
\* none of these exceptions contains ValidationException, so the loop is
\* left by break; a toolUse has by then been stored as far as the keys
\* went.  An object without "event" is put on the output queue as it is.
EgressRecvJson(i, js, id) ==
    /\ egress[i].pc = "recv"
    /\ ~egress[i].cancel
    /\ last_recv' = [kind |-> "json", by |-> i, json |-> js]
    /\ IF Raises(js) = "" /\ js.event # "absent"
       THEN /\ recv_count' = recv_count + 1
            /\ IF js.event = "toolUse"
               THEN /\ toolUseContent' = ToolUseContent(EnvelopeOf(js, id))
                    /\ toolName' = EnvelopeOf(js, id).toolName
                    /\ toolUseId' = EnvelopeOf(js, id).toolUseId
               ELSE UNCHANGED toolVars
            /\ EgressLoop(i, PutNowait(output_queue,
                                       [EnvelopeOf(js, id) EXCEPT
                                           !.seq = recv_count + 1],
                                       OutputQueueMaxsize))
       ELSE /\ recv_count' = recv_count + 1
            /\ IF Raises(js) = "KeyError"
               THEN /\ toolUseContent' = [dict |-> TRUE, content |-> "{}"]
                    /\ toolName' = IF js.toolName THEN "getDateTool" ELSE toolName
                    /\ toolUseId' = toolUseId
               ELSE UNCHANGED toolVars
            /\ IF Raises(js) = ""
               THEN EgressLoop(i, PutNowait(output_queue,
                                            [NoEnvelope EXCEPT !.seq = recv_count + 1],
                                            OutputQueueMaxsize))
               ELSE /\ EgressBreak(i)
                    /\ UNCHANGED <<output_queue, egress_log>>
    /\ UNCHANGED <<stream, response_task, bedrock_client, audio_input_queue,
                   nameVars, tool_processing_tasks, tasks, ingress, fe, backend_in,
                   closed_streams, audio_count, fe_sends, init_count, audio_log>>
    /\ UNCHANGED <<script, serverVars, tool_call>>

\* The record the handlers of lines 291-313 put on the output queue.
EgressErrorRecord(kind, seq) ==
    IF kind = "badjson" THEN RawData(seq) ELSE ErrorEnvelope(seq)

\* A chunk that is not JSON (kind "badjson") or a receive that raises a
\* ValidationException (kind "validation"): `await self.output_queue.put(..)`
\* and continue.  The put suspends while the queue is full.
EgressRecvError(i, kind) ==
    LET rec == EgressErrorRecord(kind, recv_count + 1) IN
    /\ egress[i].pc = "recv"
    /\ ~egress[i].cancel
    /\ recv_count' = recv_count + 1
    /\ last_recv' = [kind |-> kind, by |-> i]
    /\ IF Len(output_queue) < OutputQueueMaxsize
       THEN EgressLoop(i, Append(output_queue, rec))
       ELSE /\ egress' = [egress EXCEPT ![i].pc = "put", ![i].item = rec]
            /\ UNCHANGED <<output_queue, is_active, egress_log>>
            /\ returned' = {}
    /\ UNCHANGED <<stream, response_task, bedrock_client, audio_input_queue,
                   nameVars, toolVars, tool_processing_tasks, tasks, ingress, fe,
                   backend_in, closed_streams, audio_count, fe_sends, init_count,
                   audio_log>>
    /\ UNCHANGED <<script, serverVars, tool_call>>

\* The put of EgressRecvError finds room.
EgressPutWake(i) ==
    /\ egress[i].pc = "put"
    /\ ~egress[i].cancel
    /\ Len(output_queue) < OutputQueueMaxsize
    /\ EgressLoop(i, Append(output_queue, egress[i].item))
    /\ UNCHANGED <<stream, response_task, bedrock_client, audio_input_queue,
                   nameVars, toolVars, tool_processing_tasks, tasks, ingress, fe,
                   backend_in, closed_streams, countVars>>
    /\ UNCHANGED <<script, serverVars, tool_call>>

\* The receive ends the loop: StopAsyncIteration ("eos"), an exception other
\* than a validation error ("exception"), or bytes that are not UTF-8
\* ("badutf8": UnicodeDecodeError is not a JSONDecodeError).
EgressRecvEnd(i, kind) ==
    /\ egress[i].pc = "recv"
    /\ ~egress[i].cancel
    /\ kind \in {"eos", "exception", "badutf8"}
    /\ recv_count' = recv_count + 1
    /\ last_recv' = [kind |-> kind, by |-> i]
    /\ EgressBreak(i)
    /\ UNCHANGED <<stream, response_task, bedrock_client, audio_input_queue,
                   output_queue, nameVars, toolVars, tool_processing_tasks, tasks,
                   ingress, fe, backend_in, egress_log, closed_streams, audio_count,
                   fe_sends, init_count, audio_log>>
    /\ UNCHANGED <<script, serverVars, tool_call>>

\* A response task in which the cancellation is caught like any other
\* exception of the receive: the loop is left by break and lines 321-323 run.
EgressCancelledRunsExit(i) ==
    /\ egress[i].pc \in {"new", "recv", "put"}
    /\ egress[i].cancel
    /\ egress' = [egress EXCEPT ![i].pc = "done", ![i].item = NoEnvelope,
                                ![i].outcome = "exited"]
    /\ is_active' = FALSE
    /\ returned' = {"close"}
    /\ UNCHANGED <<stream, response_task, bedrock_client,
                   audio_input_queue, output_queue, nameVars, toolVars,
                   tool_processing_tasks, tasks, ingress, fe, backend_in, egress_log,
                   closed_streams, countVars>>
    /\ UNCHANGED <<script, serverVars, tool_call>>

\* response_task.cancel() took effect: CancelledError leaves the coroutine at
\* its await; lines 321-323 are not run.
EgressCancelled(i) ==
    /\ egress[i].pc \in {"new", "recv", "put"}
    /\ egress[i].cancel
    /\ egress' = [egress EXCEPT ![i].pc = "done", ![i].item = NoEnvelope,
                                ![i].outcome = "cancelled"]
    /\ returned' = {}
    /\ UNCHANGED <<is_active, stream, response_task, bedrock_client,
                   audio_input_queue, output_queue, nameVars, toolVars,
                   tool_processing_tasks, tasks, ingress, fe, backend_in, egress_log,
                   closed_streams, countVars>>
    /\ UNCHANGED <<script, serverVars, tool_call>>

\* --------------------------------------------------- _process_audio_input
\* A check of line 180 that looks at the audio bytes only.
AudioMissingBytesOnly(d) == d.audio_bytes = ""

\* Line 180: a record with an empty or missing field is skipped.
AudioMissing(d) ==
    d.audio_bytes = "" \/ d.prompt_name = "" \/ d.content_name = ""

\* Lines 185-193: building the event raises for bytes that do not decode.
AudioRaises(d) == d.audio_bytes = "undecodable"

\* The audio task at the top of `while self.is_active:` with the queue q, run
\* until it suspends or ends.  queue.get() returns at once while the queue
\* holds a record; a skipped record, an exception and a send_raw_event that
\* returns early all lead back to the top of the loop without suspending.
RECURSIVE IngressLoop(_)
RECURSIVE IngressProcess(_, _)
\* An audio task that takes the newest record of the queue.
IngressLoopNewest(q) ==
    IF ~is_active THEN [pc |-> "done", q |-> q, item |-> NoRecord]
    ELSE IF q = <<>> THEN [pc |-> "get", q |-> q, item |-> NoRecord]
    ELSE IngressProcess(q[Len(q)], SubSeq(q, 1, Len(q) - 1))

\* An audio task that an exception of lines 185-193 ends.
IngressProcessRaisesOut(d, q) ==
    IF AudioRaises(d) THEN [pc |-> "done", q |-> q, item |-> NoRecord]
    ELSE IF AudioMissing(d) THEN IngressLoop(q)
    ELSE IF ~SendAllowed THEN IngressLoop(q)
    ELSE [pc |-> "send", q |-> q, item |-> d]

IngressLoop(q) ==
    IF ~is_active THEN [pc |-> "done", q |-> q, item |-> NoRecord]
    ELSE IF q = <<>> THEN [pc |-> "get", q |-> q, item |-> NoRecord]
    ELSE IngressProcess(Head(q), Tail(q))
IngressProcess(d, q) ==
    IF AudioMissing(d) \/ AudioRaises(d) THEN IngressLoop(q)
    ELSE IF ~SendAllowed THEN IngressLoop(q)
    ELSE [pc |-> "send", q |-> q, item |-> d]

\* The audio task i has run up to the state r.
IngressSettle(i, r, ok) ==
    /\ ingress' = [ingress EXCEPT ![i] = [pc |-> r.pc, item |-> r.item]]
    /\ audio_input_queue' = r.q
    /\ backend_in' =
          IF r.pc = "send"
          THEN WriteToBackend(backend_in,
                              audio_input(r.item.prompt_name, r.item.content_name,
                                          r.item.audio_bytes), ok)
          ELSE backend_in
    /\ returned' = {}
    /\ UNCHANGED <<egress_log, is_active, stream, response_task, bedrock_client, output_queue,
                   nameVars, toolVars, tool_processing_tasks, tasks, egress, fe,
                   closed_streams, countVars>>
    /\ UNCHANGED <<script, serverVars, tool_call>>

\* The first step of the audio task.
IngressStart(i, ok) ==
    /\ ingress[i].pc = "new"
    /\ IngressSettle(i, IngressLoop(audio_input_queue), ok)

\* queue.get() was waiting and the queue holds a record: the task takes it,
\* whatever is_active is by now.
IngressGetWake(i, ok) ==
    /\ ingress[i].pc = "get"
    /\ audio_input_queue # <<>>
    /\ IngressSettle(i, IngressProcess(Head(audio_input_queue),
                                       Tail(audio_input_queue)), ok)

\* input_stream.send returned or raised: back to the top of the loop.
IngressSendDone(i, ok) ==
    /\ ingress[i].pc = "send"
    /\ IngressSettle(i, IngressLoop(audio_input_queue), ok)

\* ------------------------------------------------------- add_audio_chunk
\* put_nowait of the record; QueueFull is swallowed and the record dropped.
add_audio_chunk(d) ==
    /\ audio_count' = audio_count + 1
    /\ audio_input_queue' = PutNowait(audio_input_queue, d, AudioQueueMaxsize)
    /\ audio_log' = IF audio_input_queue' = audio_input_queue THEN audio_log
                    ELSE Append(audio_log, d)
    /\ returned' = {"add_audio_chunk"}
    /\ UNCHANGED <<is_active, stream, response_task, bedrock_client, output_queue,
                   nameVars, toolVars, tool_processing_tasks, tasks, egress,
                   ingress, fe, backend_in, egress_log, closed_streams, recv_count,
                   fe_sends, init_count, last_recv>>

\* The next audio record of the producer: the audio_count+1-th chunk.
NextAudio == AudioRecord("p", "a", AudioBytes[audio_count + 1])

\* The client takes one record from the output queue (output_queue.get()).
ConsumeOutput ==
    /\ output_queue # <<>>
    /\ output_queue' = Tail(output_queue)
    /\ returned' = {}
    /\ UNCHANGED <<is_active, stream, response_task, bedrock_client,
                   audio_input_queue, nameVars, toolVars, tool_processing_tasks,
                   tasks, egress, ingress, fe, backend_in, egress_log, closed_streams,
                   countVars>>
    /\ UNCHANGED <<script, serverVars, tool_call>>

\* ------------------------------------------------------------------ close
\* The state close() works on, as a record, so that the parts of close()
\* between two awaits compose.
Cur ==
    [is_active |-> is_active, stream |-> stream, response_task |-> response_task,
     audio_input_queue |-> audio_input_queue, output_queue |-> output_queue,
     prompt_name |-> prompt_name, content_name |-> content_name,
     audio_content_name |-> audio_content_name,
     toolUseContent |-> toolUseContent, toolUseId |-> toolUseId,
     toolName |-> toolName, tool_processing_tasks |-> tool_processing_tasks,
     tasks |-> tasks, egress |-> egress, closed_streams |-> closed_streams,
     pc |-> "return", gathered |-> {}, awaited |-> 0]

\* Lines 469-471.
CloseFinish(r) ==
    [r EXCEPT !.stream = 0, !.response_task = 0, !.pc = "return"]

\* Lines 462-467: cancel the response task and await it, unless it is done.
CloseCancelResponse(r) ==
    IF r.response_task # 0 /\ r.egress[r.response_task].pc # "done"
    THEN [r EXCEPT !.egress[r.response_task].cancel = TRUE,
                   !.pc = "close_resp", !.awaited = r.response_task]
    ELSE CloseFinish(r)

\* Lines 456-460: await stream.input_stream.close(), errors ignored.
CloseStream(r) ==
    IF r.stream # 0
    THEN [r EXCEPT !.closed_streams = @ \cup {r.stream}, !.pc = "close_stream"]
    ELSE CloseCancelResponse(r)

\* Lines 430-454: forget the tool tasks, empty both queues, reset the tool
\* fields and the correlation names.
CloseClear(r) ==
    CloseStream([r EXCEPT !.tool_processing_tasks = {},
                          !.audio_input_queue = <<>>,
                          !.output_queue = <<>>,
                          !.toolUseContent = NoToolUseContent,
                          !.toolUseId = "",
                          !.toolName = "",
                          !.prompt_name = None,
                          !.content_name = None,
                          !.audio_content_name = None])

\* task.cancel() on every task of the set ts that is not done.
CancelAll(tk, ts) ==
    [t \in TaskIds |->
        IF t \in ts /\ tk[t].pc # "done" THEN [tk[t] EXCEPT !.cancel = TRUE]
        ELSE tk[t]]

\* Lines 415-429: return at once when not active; else clear is_active,
\* cancel the tool tasks and, when there are any, await them with gather.
CloseBegin(r) ==
    IF ~r.is_active THEN [r EXCEPT !.pc = "return"]
    ELSE LET r1 == [r EXCEPT !.is_active = FALSE,
                             !.tasks = CancelAll(r.tasks, r.tool_processing_tasks)]
         IN IF r1.tool_processing_tasks # {}
            THEN [r1 EXCEPT !.pc = "close_gather",
                            !.gathered = r1.tool_processing_tasks]
            ELSE CloseClear(r1)

\* The front end's close() has run up to the state r; in_send tells that
\* close() was called by send_raw_event, which returns with it.
CloseSettle(r, in_send) ==
    /\ is_active' = r.is_active
    /\ stream' = r.stream
    /\ response_task' = r.response_task
    /\ audio_input_queue' = r.audio_input_queue
    /\ output_queue' = r.output_queue
    /\ prompt_name' = r.prompt_name
    /\ content_name' = r.content_name
    /\ audio_content_name' = r.audio_content_name
    /\ toolUseContent' = r.toolUseContent
    /\ toolUseId' = r.toolUseId
    /\ toolName' = r.toolName
    /\ tool_processing_tasks' = r.tool_processing_tasks
    /\ tasks' = r.tasks
    /\ egress' = r.egress
    /\ closed_streams' = r.closed_streams
    /\ fe' = IF r.pc = "return" THEN FeIdle
             ELSE [FeIdle EXCEPT !.pc = r.pc, !.gathered = r.gathered,
                                 !.awaited = r.awaited, !.in_send = in_send]
    /\ returned' = IF r.pc # "return" THEN {}
                   ELSE IF in_send THEN {"close", "send_raw_event"}
                   ELSE {"close"}
    /\ UNCHANGED <<bedrock_client, ingress, backend_in, egress_log, countVars>>

\* The front end calls close().
close ==
    /\ fe.pc = "idle"
    /\ CloseSettle(CloseBegin(Cur), FALSE)

\* asyncio.gather(*tool_processing_tasks) is over: every task it was given
\* is done.
CloseGathered ==
    /\ fe.pc = "close_gather"
    /\ \A t \in fe.gathered : tasks[t].pc = "done"
    /\ CloseSettle(CloseClear(Cur), fe.in_send)
    /\ UNCHANGED <<script, serverVars, tool_call>>

\* stream.input_stream.close() returned or raised.
CloseStreamClosed ==
    /\ fe.pc = "close_stream"
    /\ CloseSettle(CloseCancelResponse(Cur), fe.in_send)
    /\ UNCHANGED <<script, serverVars, tool_call>>

\* `await self.response_task` is over: the cancelled response task is done.
CloseResponseDone ==
    /\ fe.pc = "close_resp"
    /\ egress[fe.awaited].pc = "done"
    /\ CloseSettle(CloseFinish(Cur), fe.in_send)
    /\ UNCHANGED <<script, serverVars, tool_call>>

\* --------------------------------------------------------- send_raw_event
\* The front end calls send_raw_event(ev); ok tells whether the write will
\* succeed.
send_raw_event(ev, ok) ==
    /\ fe.pc = "idle"
    /\ fe_sends' = fe_sends + 1
    /\ IF SendAllowed
       THEN /\ backend_in' = WriteToBackend(backend_in, ev, ok)
            /\ fe' = [FeIdle EXCEPT !.pc = "send", !.ev = ev, !.ok = ok]
            /\ returned' = {}
       ELSE /\ UNCHANGED <<backend_in, fe>>
            /\ returned' = {"send_raw_event"}
    /\ UNCHANGED <<egress_log, is_active, stream, response_task, bedrock_client,
                   audio_input_queue, output_queue, nameVars, toolVars,
                   tool_processing_tasks, tasks, egress, ingress, closed_streams,
                   recv_count, audio_count, init_count, audio_log, last_recv>>

\* input_stream.send of the front end's event returned (then close() when the
\* event is sessionEnd) or raised (then nothing more).
\* A send_raw_event that closes the session after a sessionEnd whether or
\* not the write succeeded.
SendDoneClosesOnError ==
    /\ fe.pc = "send"
    /\ IF fe.ev.name = "sessionEnd"
       THEN CloseSettle(CloseBegin(Cur), TRUE)
       ELSE /\ fe' = FeIdle
            /\ returned' = {"send_raw_event"}
            /\ UNCHANGED <<is_active, stream, response_task, bedrock_client,
                           audio_input_queue, output_queue, nameVars, toolVars,
                           tool_processing_tasks, tasks, egress, ingress,
                           backend_in, egress_log, closed_streams, countVars>>
    /\ UNCHANGED <<script, serverVars, tool_call>>

SendDone ==
    /\ fe.pc = "send"
    /\ IF fe.ok /\ fe.ev.name = "sessionEnd"
       THEN CloseSettle(CloseBegin(Cur), TRUE)
       ELSE /\ fe' = FeIdle
            /\ returned' = {"send_raw_event"}
            /\ UNCHANGED <<is_active, stream, response_task, bedrock_client,
                           audio_input_queue, output_queue, nameVars, toolVars,
                           tool_processing_tasks, tasks, egress, ingress,
                           backend_in, egress_log, closed_streams, countVars>>
    /\ UNCHANGED <<script, serverVars, tool_call>>

\* ------------------------------------------------------ initialize_stream
NextPump == Cardinality({i \in Pumps : egress[i].pc # "none"}) + 1

\* The front end calls initialize_stream(); client_ok tells whether
\* _initialize_client() succeeds when there is no client yet.
initialize_stream(client_ok) ==
    /\ fe.pc = "idle"
    /\ NextPump <= MaxInit
    /\ init_count' = init_count + 1
    /\ IF bedrock_client \/ client_ok
       THEN /\ bedrock_client' = TRUE
            /\ fe' = [FeIdle EXCEPT !.pc = "init_invoke"]
            /\ returned' = {}
            /\ UNCHANGED is_active
       ELSE /\ is_active' = FALSE
            /\ returned' = {"initialize_stream raised"}
            /\ UNCHANGED <<bedrock_client, fe>>
    /\ UNCHANGED <<stream, response_task, audio_input_queue, output_queue,
                   nameVars, toolVars, tool_processing_tasks, tasks, egress,
                   ingress, backend_in, egress_log, closed_streams, recv_count,
                   audio_count, fe_sends, audio_log, last_recv>>

\* An initialize_stream whose failure comes after the stream was assigned and
\* the tasks were created.
InitInvokedFailsLate(ok) ==
    LET n == NextPump IN
    /\ fe.pc = "init_invoke"
    /\ stream' = n
    /\ response_task' = n
    /\ egress' = [egress EXCEPT ![n] = [NoEgress EXCEPT !.pc = "new"]]
    /\ ingress' = [ingress EXCEPT ![n] = [NoIngress EXCEPT !.pc = "new"]]
    /\ IF ok
       THEN /\ is_active' = TRUE
            /\ fe' = [FeIdle EXCEPT !.pc = "init_sleep"]
            /\ returned' = {}
       ELSE /\ is_active' = FALSE
            /\ fe' = FeIdle
            /\ returned' = {"initialize_stream raised"}
    /\ UNCHANGED <<bedrock_client, audio_input_queue, output_queue, nameVars,
                   toolVars, tool_processing_tasks, tasks, backend_in, egress_log,
                   closed_streams, countVars>>
    /\ UNCHANGED <<script, serverVars, tool_call>>

\* invoke_model_with_bidirectional_stream returned the stream (ok) or raised.
InitInvoked(ok) ==
    LET n == NextPump IN
    /\ fe.pc = "init_invoke"
    /\ IF ok
       THEN /\ stream' = n
            /\ is_active' = TRUE
            /\ response_task' = n
            /\ egress' = [egress EXCEPT ![n] = [NoEgress EXCEPT !.pc = "new"]]
            /\ ingress' = [ingress EXCEPT ![n] = [NoIngress EXCEPT !.pc = "new"]]
            /\ fe' = [FeIdle EXCEPT !.pc = "init_sleep"]
            /\ returned' = {}
       ELSE /\ is_active' = FALSE
            /\ fe' = FeIdle
            /\ returned' = {"initialize_stream raised"}
            /\ UNCHANGED <<stream, response_task, egress, ingress>>
    /\ UNCHANGED <<bedrock_client, audio_input_queue, output_queue, nameVars,
                   toolVars, tool_processing_tasks, tasks, backend_in, egress_log,
                   closed_streams, countVars>>
    /\ UNCHANGED <<script, serverVars, tool_call>>

\* asyncio.sleep(0.1) is over: initialize_stream returns.  The tasks created
\* before the sleep are scheduled ahead of its timer, so both have run their
\* first step by then.
InitSlept ==
    /\ fe.pc = "init_sleep"
    /\ \A i \in Pumps : egress[i].pc # "new" /\ ingress[i].pc # "new"
    /\ fe' = FeIdle
    /\ returned' = {"initialize_stream"}
    /\ UNCHANGED <<is_active, stream, response_task, bedrock_client,
                   audio_input_queue, output_queue, nameVars, toolVars,
                   tool_processing_tasks, tasks, egress, ingress, backend_in, egress_log,
                   closed_streams, countVars>>
    /\ UNCHANGED <<script, serverVars, tool_call>>

\* ---------------------------------------------------- reset_session_state
\* A reset that forgets the tool tasks without cancelling them.
reset_session_state_forgets ==
    /\ tool_processing_tasks' = {}
    /\ audio_input_queue' = <<>>
    /\ output_queue' = <<>>
    /\ toolUseContent' = NoToolUseContent
    /\ toolUseId' = ""
    /\ toolName' = ""
    /\ prompt_name' = None
    /\ content_name' = None
    /\ audio_content_name' = None
    /\ returned' = {"reset_session_state"}
    /\ UNCHANGED <<is_active, stream, response_task, bedrock_client, egress, tasks,
                   ingress, fe, backend_in, egress_log, closed_streams, countVars>>

\* Lines 76-105: cancel the tool tasks that are not done and forget them all,
\* empty both queues, reset the tool fields and the correlation names.
reset_session_state ==
    /\ tasks' = CancelAll(tasks, tool_processing_tasks)
    /\ tool_processing_tasks' = {}
    /\ audio_input_queue' = <<>>
    /\ output_queue' = <<>>
    /\ toolUseContent' = NoToolUseContent
    /\ toolUseId' = ""
    /\ toolName' = ""
    /\ prompt_name' = None
    /\ content_name' = None
    /\ audio_content_name' = None
    /\ returned' = {"reset_session_state"}
    /\ UNCHANGED <<is_active, stream, response_task, bedrock_client, egress,
                   ingress, fe, backend_in, egress_log, closed_streams, countVars>>

\* The front end sets the correlation names of the conversation.
SetNames ==
    /\ prompt_name = None
    /\ prompt_name' = "p"
    /\ content_name' = "c"
    /\ audio_content_name' = "a"
    /\ returned' = {}
    /\ UNCHANGED <<is_active, stream, response_task, bedrock_client,
                   audio_input_queue, output_queue, toolVars,
                   tool_processing_tasks, tasks, egress, ingress, fe, backend_in, egress_log,
                   closed_streams, countVars>>

\* ------------------------------------------------------- specifications
\* Bounds of the lifecycle runs: chunks the backend delivers, tool tasks
\* spawned, add_audio_chunk() calls.
LifeMaxRecv == 3
LifeMaxTools == 1
LifeMaxAudio == 1

\* The steps of the coroutines the session manager runs, every write to the
\* backend succeeding.
PumpStep ==
    \/ \E i \in Pumps : EgressStart(i)
    \/ \E i \in Pumps : EgressPutWake(i)
    \/ \E i \in Pumps : EgressCancelled(i)
    \/ \E i \in Pumps : IngressStart(i, TRUE)
    \/ \E i \in Pumps : IngressGetWake(i, TRUE)
    \/ \E i \in Pumps : IngressSendDone(i, TRUE)

ToolStep ==
    \/ \E t \in TaskIds : ToolStart(t, TRUE)
    \/ \E t \in TaskIds : ToolSendDone(t, TRUE)
    \/ \E t \in TaskIds : ToolPutWake(t, TRUE)
    \/ \E t \in TaskIds : ToolCancelled(t)

CloseStep ==
    \/ CloseGathered
    \/ CloseStreamClosed
    \/ CloseResponseDone

\* One session object from its construction on: the front end initialises it
\* once, may queue audio and may call close() at any moment; the backend
\* sends text, tool requests and undecodable chunks and may end the stream;
\* the client may or may not drain the output queue.
Init ==
    /\ InitSession
    /\ script = NoScript
    /\ tool_call = NoCall
    /\ InitServer(NoCredentials, <<>>)

Next ==
    \/ PumpStep
    \/ ToolStep
    \/ CloseStep
    \/ \E client_ok \in BOOLEAN :
          init_count = 0 /\ initialize_stream(client_ok) /\ UNCHANGED <<script, serverVars, tool_call>>
    \/ \E ok \in BOOLEAN : InitInvoked(ok)
    \/ InitSlept
    \/ close /\ UNCHANGED <<script, serverVars, tool_call>>
    \/ audio_count < LifeMaxAudio /\ add_audio_chunk(NextAudio) /\ UNCHANGED <<script, serverVars, tool_call>>
    \/ ConsumeOutput
    \/ \E i \in Pumps :
          /\ recv_count < LifeMaxRecv
          /\ NextTaskId <= LifeMaxTools
          /\ EgressRecvEvent(i, ContentEndEv("TOOL"))
    \/ \E i \in Pumps : recv_count < LifeMaxRecv /\ EgressRecvEvent(i, TextOutputEv)
    \/ \E i \in Pumps : recv_count < LifeMaxRecv /\ EgressRecvError(i, "badjson")
    \/ \E i \in Pumps : recv_count < LifeMaxRecv /\ EgressRecvEnd(i, "eos")

Spec == Init /\ [][Next]_vars

\* ---------------------------------------------------------------- claims
ToolTasksSettled == \A t \in TaskIds : tasks[t].pc \in {"none", "done"}
EgressRunning == \E i \in Pumps : egress[i].pc \in {"new", "recv", "put"}
EgressExited == \E i \in Pumps : egress[i].outcome = "exited"
IngressCanStep(i) ==
    \/ ingress[i].pc \in {"new", "send"}
    \/ ingress[i].pc = "get" /\ audio_input_queue # <<>>
\* No coroutine of the session can take a step: only a new call of the front
\* end, a new chunk of the backend or the client changes the state.
Quiescent ==
    /\ fe.pc = "idle"
    /\ ToolTasksSettled
    /\ ~EgressRunning
    /\ \A i \in Pumps : ~IngressCanStep(i)

\* C1: whenever a call of close() has just returned, tool_processing_tasks is
\* empty, both queues are empty and stream is None.
C1_CloseLeavesClosed ==
    "close" \in returned =>
        /\ tool_processing_tasks = {}
        /\ audio_input_queue = <<>>
        /\ output_queue = <<>>
        /\ stream = 0

\* C2: once the response loop has exited on its own (end of stream or a
\* non-validation exception) and the session has come to rest, the session
\* is closed: is_active is False, every tool task settled, both queues empty,
\* the correlation names None and stream None.
C2_EgressExitCloses ==
    (EgressExited /\ Quiescent) =>
        /\ ~is_active
        /\ ToolTasksSettled
        /\ tool_processing_tasks = {}
        /\ audio_input_queue = <<>>
        /\ output_queue = <<>>
        /\ prompt_name = None /\ content_name = None /\ audio_content_name = None
        /\ stream = 0

\* C3: when close() has returned and is_active is False, every tool task ever
\* created is done (finished or cancelled): none can still send or enqueue.
C3_NoToolTaskAfterClosed ==
    ("close" \in returned /\ ~is_active) => ToolTasksSettled

\* C5: in every state, is_active is True exactly when stream is set and the
\* response task is running.
C5_ActiveIffStreamAndEgress ==
    is_active <=> (stream # 0 /\ EgressRunning)

\* C6: the output queue never holds more than its capacity and the response
\* task is never suspended in a put waiting for room in it.
C6_EgressNeverWaitsForRoom ==
    /\ Len(output_queue) <= OutputQueueMaxsize
    /\ \A i \in Pumps : egress[i].pc # "put"

\* C10: while is_active is False, an audio task that has not ended can still
\* take a step towards its end, even with the audio queue empty.
C10_IngressExitsWhenInactive ==
    \A i \in Pumps :
        (~is_active /\ ingress[i].pc \notin {"none", "done"}) => IngressCanStep(i)

\* ------------------------------------------------- re-initialised sessions
\* Bound of the re-initialisation runs: chunks the backend delivers.
ReinitMaxRecv == 1

\* As Spec, but the front end may call initialize_stream() again, at any
\* moment it is not inside another call; no tools and no audio.
ReinitNext ==
    \/ \E i \in Pumps : EgressStart(i)
    \/ \E i \in Pumps : EgressCancelled(i)
    \/ \E i \in Pumps : IngressStart(i, TRUE)
    \/ CloseStreamClosed
    \/ CloseResponseDone
    \/ init_count < MaxInit /\ initialize_stream(TRUE) /\ UNCHANGED <<script, serverVars, tool_call>>
    \/ \E ok \in BOOLEAN : InitInvoked(ok)
    \/ InitSlept
    \/ close /\ UNCHANGED <<script, serverVars, tool_call>>
    \/ \E i \in Pumps : recv_count < ReinitMaxRecv /\ EgressRecvEnd(i, "eos")

SpecReinit == Init /\ [][ReinitNext]_vars

\* C4: once a session that had a stream has is_active False, no step makes
\* is_active True again, and once its stream is None no step sets it again.
C4_NoResurrection ==
    [][(NextPump > 1 /\ ~is_active) =>
            (~is_active' /\ (stream = 0 => stream' = 0))]_vars

\* ------------------------------------------------------ scripted front end
Step(op, arg) == [op |-> op, arg |-> arg]

\* Scenario S1 of the specification with two audio chunks: the client opens
\* the prompt and the audio content, sends the chunks and ends the content.
S1Script ==
    [id |-> "S1",
     todo |-> <<Step("init", ""), Step("send", "promptStart"),
                Step("send", "contentStart"), Step("audio", ""),
                Step("audio", ""), Step("send", "contentEnd")>>]
S1Expected ==
    <<FeEnvelope("promptStart"), FeEnvelope("contentStart"),
      audio_input("p", "a", AudioBytes[1]), audio_input("p", "a", AudioBytes[2]),
      FeEnvelope("contentEnd")>>

\* Scenario S5 with audio still on its way: the client queues a chunk and
\* sends sessionEnd.
S5Script ==
    [id |-> "S5",
     todo |-> <<Step("init", ""), Step("audio", ""), Step("send", "sessionEnd")>>]

\* The front end makes the next call of its script, one call after the other.
ScriptCall ==
    /\ fe.pc = "idle"
    /\ script.todo # <<>>
    /\ script' = [script EXCEPT !.todo = Tail(@)]
    /\ UNCHANGED <<serverVars, tool_call>>
    /\ LET st == Head(script.todo) IN
       \/ st.op = "init" /\ initialize_stream(TRUE)
       \/ st.op = "send" /\ send_raw_event(FeEnvelope(st.arg), TRUE)
       \/ st.op = "audio" /\ add_audio_chunk(NextAudio)

\* Bound of the scripted runs: chunks the backend delivers.
ScriptMaxRecv == 1

ScriptInit ==
    /\ InitSession
    /\ script \in {S1Script, S5Script}
    /\ tool_call = NoCall
    /\ InitServer(NoCredentials, <<>>)

ScriptNext ==
    \/ \E i \in Pumps : EgressStart(i)
    \/ \E i \in Pumps : EgressCancelled(i)
    \/ \E i \in Pumps : IngressStart(i, TRUE)
    \/ \E i \in Pumps : IngressGetWake(i, TRUE)
    \/ \E i \in Pumps : IngressSendDone(i, TRUE)
    \/ CloseStreamClosed
    \/ CloseResponseDone
    \/ SendDone
    \/ \E ok \in BOOLEAN : InitInvoked(ok)
    \/ InitSlept
    \/ ScriptCall
    \/ \E i \in Pumps : recv_count < ScriptMaxRecv /\ EgressRecvEnd(i, "exception")

SpecScript == ScriptInit /\ [][ScriptNext]_vars

IsPrefix(s, t) ==
    /\ Len(s) <= Len(t)
    /\ \A k \in 1..Len(s) : s[k] = t[k]

\* C8: a sessionEnd written to the backend input stream is the last event
\* written to it.
C8_SessionEndIsLast ==
    \A k \in 1..Len(backend_in) :
        backend_in[k].name = "sessionEnd" => k = Len(backend_in)

\* C9: in scenario S1 the backend input stream receives promptStart,
\* contentStart, the audio chunks and contentEnd in exactly that order: at
\* every moment what it has received is a prefix of that sequence.
C9_ScenarioOrder ==
    script.id = "S1" => IsPrefix(backend_in, S1Expected)

\* ------------------------------------------------------------ tool runs
\* Bounds of the tool runs: chunks the backend delivers, tool tasks spawned.
ToolMaxRecv == 3
ToolMaxTools == 1
\* The toolUseId of a toolUse that arrives as the n-th chunk.
ToolUseIds == <<"t1", "t2", "t3", "t4", "t5">>

\* One session, initialised once: the backend asks for tools and may end
\* the stream, writes to the backend may fail, the front end may call
\* close() at any moment and the client may or may not drain the output
\* queue.
ToolNext ==
    \/ \E i \in Pumps : EgressStart(i)
    \/ \E i \in Pumps : EgressCancelled(i)
    \/ \E i \in Pumps : IngressStart(i, TRUE)
    \/ \E t \in TaskIds, ok \in BOOLEAN : ToolStart(t, ok)
    \/ \E t \in TaskIds, ok \in BOOLEAN : ToolSendDone(t, ok)
    \/ \E t \in TaskIds, ok \in BOOLEAN : ToolPutWake(t, ok)
    \/ \E t \in TaskIds : ToolCancelled(t)
    \/ CloseStep
    \/ init_count = 0 /\ initialize_stream(TRUE) /\ UNCHANGED <<script, serverVars, tool_call>>
    \/ InitInvoked(TRUE)
    \/ InitSlept
    \/ close /\ UNCHANGED <<script, serverVars, tool_call>>
    \/ ConsumeOutput
    \/ \E i \in Pumps, tn \in {"getDateTool", NonStringName} :
          /\ recv_count < ToolMaxRecv
          /\ EgressRecvEvent(i, ToolUseEv(tn, ToolUseIds[recv_count + 1], "{}"))
    \/ \E i \in Pumps :
          /\ recv_count < ToolMaxRecv
          /\ NextTaskId <= ToolMaxTools
          /\ EgressRecvEvent(i, ContentEndEv("TOOL"))
    \/ \E i \in Pumps : recv_count < ToolMaxRecv /\ EgressRecvEnd(i, "eos")

SpecTool == Init /\ [][ToolNext]_vars

\* The three events of the dispatch t, as the source builds them.
DispatchEvents(t) ==
    <<content_start_tool(tasks[t].prompt_name, Uuid[t], tasks[t].tool_use_id),
      text_input_tool(tasks[t].prompt_name, Uuid[t], tasks[t].toolResult),
      content_end(tasks[t].prompt_name, Uuid[t])>>
\* What of a log carries the content name of the dispatch t.
OfDispatch(log, t) == SelectSeq(log, LAMBDA e : e.contentName = Uuid[t])
\* s holds elements of t only, each once, in the order of t (t without
\* repetitions).
IsSubSeq(s, t) ==
    /\ \A i \in 1..Len(s) : \E k \in 1..Len(t) : t[k] = s[i]
    /\ \A i, j \in 1..Len(s) : \A k, l \in 1..Len(t) :
          (i < j /\ t[k] = s[i] /\ t[l] = s[j]) => k < l

\* C7 as claimed: a dispatch that has ended has put contentStart, toolResult
\* and contentEnd on the output queue and has written the same three to the
\* backend.
C7_ExactlyThreeAlways ==
    \A t \in TaskIds :
        (tasks[t].pc = "done" /\ tasks[t].tool_name = "getDateTool") =>
            /\ OfDispatch(egress_log, t) = DispatchEvents(t)
            /\ OfDispatch(backend_in, t) = DispatchEvents(t)

\* C7 as amended: a dispatch puts on the output queue a prefix of
\* <contentStart, toolResult, contentEnd>, all with its own content name, and
\* all three once it has run to its end; what it writes to the backend is
\* taken from the same three in the same order, and is all three when it has
\* run to its end with the session still active and no write failed (the
\* tool name being a string).
C7_ToolDispatchEvents ==
    \A t \in TaskIds :
        tasks[t].pc # "none" =>
            /\ IsPrefix(OfDispatch(egress_log, t), DispatchEvents(t))
            /\ IsSubSeq(OfDispatch(backend_in, t), DispatchEvents(t))
            /\ (tasks[t].outcome = "finished" /\ ~LowerRaises(tasks[t].tool_name)) =>
                  OfDispatch(egress_log, t) = DispatchEvents(t)
            /\ (/\ tasks[t].outcome = "finished"
                /\ ~LowerRaises(tasks[t].tool_name)
                /\ SendAllowed
                /\ ~tasks[t].failed) =>
                  OfDispatch(backend_in, t) = DispatchEvents(t)

\* A dispatch ran to its end on an active session and all three events are
\* on both sides.
C7_Witness ==
    \E t \in TaskIds :
        /\ tasks[t].outcome = "finished"
        /\ SendAllowed
        /\ OfDispatch(backend_in, t) = DispatchEvents(t)
        /\ OfDispatch(egress_log, t) = DispatchEvents(t)

\* ----------------------------------------------------------- queue runs
\* Bounds of the queue runs: add_audio_chunk() calls, chunks the backend
\* delivers, tool tasks spawned.
QueueMaxCalls == 3
QueueMaxRecv == 3
QueueMaxTools == 1

\* The k-th call of the producer: its chunk, with a content name or, when
\* whole is FALSE, with an empty one.
AudioCall(k, whole) ==
    AudioRecord("p", IF whole THEN "a" ELSE "", AudioBytes[k])

\* One session, initialised once, with every writer of the two queues: the
\* producer queues audio, the backend sends events and undecodable chunks
\* and may end the stream, a tool dispatch runs, the front end may call
\* close() at any moment and the client may or may not drain the output
\* queue.
QueueNext ==
    \/ PumpStep
    \/ ToolStep
    \/ CloseStep
    \/ init_count = 0 /\ initialize_stream(TRUE) /\ UNCHANGED <<script, serverVars, tool_call>>
    \/ InitInvoked(TRUE)
    \/ InitSlept
    \/ close /\ UNCHANGED <<script, serverVars, tool_call>>
    \/ /\ audio_count < QueueMaxCalls
       /\ add_audio_chunk(AudioCall(audio_count + 1, TRUE))
       /\ UNCHANGED <<script, serverVars, tool_call>>
    \/ ConsumeOutput
    \/ \E i \in Pumps :
          /\ recv_count < QueueMaxRecv
          /\ NextTaskId <= QueueMaxTools
          /\ EgressRecvEvent(i, ContentEndEv("TOOL"))
    \/ \E i \in Pumps : recv_count < QueueMaxRecv /\ EgressRecvEvent(i, TextOutputEv)
    \/ \E i \in Pumps : recv_count < QueueMaxRecv /\ EgressRecvError(i, "badjson")
    \/ \E i \in Pumps : recv_count < QueueMaxRecv /\ EgressRecvEnd(i, "eos")

SpecQueue == Init /\ [][QueueNext]_vars

\* C11: in every state the audio queue holds at most its capacity of records
\* and the output queue at most its capacity.
C11_QueuesBounded ==
    /\ Len(audio_input_queue) <= AudioQueueMaxsize
    /\ Len(output_queue) <= OutputQueueMaxsize

\* Both queues are full, the audio queue after a chunk was dropped.
C11_Witness ==
    /\ Len(audio_input_queue) = AudioQueueMaxsize
    /\ Len(output_queue) = OutputQueueMaxsize
    /\ audio_count > Len(audio_log)

\* ----------------------------------------------------------- audio runs
\* Bounds of the audio runs: add_audio_chunk() calls, chunks the backend
\* delivers.
AudioMaxCalls == 4
AudioMaxRecv == 1

\* The audio task has taken nothing from the audio queue so far.
NothingTaken == audio_input_queue = audio_log

\* Scenario S3: the producer queues audio, complete records and records
\* without a content name, only while the audio task has taken nothing; the
\* session is initialised once, before, between or after the calls; then the
\* audio task runs.  The backend may end the stream and the front end may
\* call close() at any moment.
AudioNext ==
    \/ \E i \in Pumps : EgressStart(i)
    \/ \E i \in Pumps : EgressCancelled(i)
    \/ \E i \in Pumps : IngressStart(i, TRUE)
    \/ \E i \in Pumps : IngressGetWake(i, TRUE)
    \/ \E i \in Pumps : IngressSendDone(i, TRUE)
    \/ CloseStreamClosed
    \/ CloseResponseDone
    \/ init_count = 0 /\ initialize_stream(TRUE) /\ UNCHANGED <<script, serverVars, tool_call>>
    \/ InitInvoked(TRUE)
    \/ InitSlept
    \/ close /\ UNCHANGED <<script, serverVars, tool_call>>
    \/ \E whole \in BOOLEAN :
          /\ audio_count < AudioMaxCalls
          /\ NothingTaken
          /\ add_audio_chunk(AudioCall(audio_count + 1, whole))
          /\ UNCHANGED <<script, serverVars, tool_call>>
    \/ \E i \in Pumps : recv_count < AudioMaxRecv /\ EgressRecvEnd(i, "eos")

SpecAudio == Init /\ [][AudioNext]_vars

Min(a, b) == IF a < b THEN a ELSE b
\* The audioInput events written to the backend, in order.
SentAudio == SelectSeq(backend_in, LAMBDA e : e.name = "audioInput")
\* The audioInput event the audio task builds from the record d.
AudioEventOf(d) == audio_input(d.prompt_name, d.content_name, d.audio_bytes)
\* The audio task waits on an empty queue.
Drained ==
    /\ audio_input_queue = <<>>
    /\ \A i \in Pumps : ingress[i].pc \in {"none", "get"}
\* While the audio task has taken nothing: the queue holds the records of the
\* first calls, as many as fit, and every later call was dropped.
KeptAreFirst ==
    NothingTaken =>
        /\ Len(audio_input_queue) = Min(audio_count, AudioQueueMaxsize)
        /\ \A k \in 1..Len(audio_input_queue) :
              audio_input_queue[k].audio_bytes = AudioBytes[k]
        /\ audio_count - Len(audio_log) =
              IF audio_count > AudioQueueMaxsize
              THEN audio_count - AudioQueueMaxsize ELSE 0

Sendable(log) ==
    SelectSeq(log, LAMBDA d : ~AudioMissing(d) /\ ~AudioRaises(d))

FromBackend(q) == SelectSeq(q, LAMBDA e : e.seq > 0)
Increasing(q) == \A j, k \in 1..Len(q) : j < k => q[j].seq < q[k].seq
\* The response task reads a chunk that decodes to an event while the output
\* queue has room: the event is the record put last.
EventPutWhenRoom ==
    (/\ recv_count' = recv_count + 1
     /\ last_recv'.kind = "event"
     /\ Len(output_queue) < OutputQueueMaxsize) =>
        /\ Len(egress_log') = Len(egress_log) + 1
        /\ egress_log'[Len(egress_log')].seq = recv_count'

\* C13: the records of backend chunks appear on the output queue in the order
\* the response task received them, tool dispatch records aside: their
\* positions in the receive sequence increase, both in all that was ever put
\* and in what the queue holds, and an event is left out only when the queue
\* was full as it arrived.
C13_ReceiveOrderKept ==
    /\ [](Increasing(FromBackend(egress_log)) /\ Increasing(FromBackend(output_queue)))
    /\ [][EventPutWhenRoom]_vars

\* An event was dropped on overflow, a later one was put, and records of a
\* tool dispatch stand among those of the backend.
C13_Witness ==
    /\ \E j, k \in 1..Len(egress_log) :
          /\ j < k
          /\ egress_log[j].seq > 0
          /\ egress_log[k].seq > egress_log[j].seq + 1
          /\ \A m \in 1..Len(egress_log) :
                ~(egress_log[m].seq > egress_log[j].seq /\ egress_log[m].seq < egress_log[k].seq)
    /\ \E m \in 1..Len(egress_log) : egress_log[m].seq = 0

\* -------------------------------------------------------- order of audio
\* C14: the audio chunks written to the backend are written in the order
\* add_audio_chunk() accepted them: of two chunks written, the one queued
\* first is written first.
C14_AudioOrderKept ==
    \A j, k \in 1..Len(SentAudio) :
        j < k =>
            \E a, b \in 1..Len(audio_log) :
                /\ a < b
                /\ AudioEventOf(audio_log[a]) = SentAudio[j]
                /\ AudioEventOf(audio_log[b]) = SentAudio[k]

\* Two chunks were written, one of them queued while the audio task was
\* sending, and a later chunk was dropped.
C14_Witness ==
    /\ Len(SentAudio) >= 2
    /\ audio_count > Len(audio_log)
    /\ \E i \in Pumps : ingress[i].pc = "send"

\* ------------------------------------------------- order of a tool turn
Names(q) == [k \in 1..Len(q) |-> q[k].name]
ThreeNames == <<"contentStart", "toolResult", "contentEnd">>
\* The records of backend chunks put on the output queue up to the
\* contentEnd that started the dispatch t.
Before(t) ==
    SelectSeq(egress_log, LAMBDA e : e.seq > 0 /\ e.seq <= tasks[t].seq)
\* Every record of the dispatch t on the output queue comes after the
\* toolUse and the contentEnd that started it.
AfterItsTurn(t) ==
    \A m, n \in 1..Len(egress_log) :
        (/\ egress_log[m].contentName = Uuid[t]
         /\ egress_log[n].seq > 0
         /\ egress_log[n].seq <= tasks[t].seq) => n < m
\* The contentStart of the dispatch t is of type TOOL and role TOOL and
\* carries the toolUseId the session held when the dispatch started, which is
\* that of the last toolUse before it (when none was dropped, to tell) if the
\* session was active as the contentEnd arrived.
StartCarriesId(t) ==
    /\ \A e \in {egress_log[m] : m \in 1..Len(egress_log)}
               \cup {backend_in[m] : m \in 1..Len(backend_in)} :
          (e.contentName = Uuid[t] /\ e.name = "contentStart") =>
              e.type = "TOOL" /\ e.role = "TOOL" /\ e.toolUseId = tasks[t].tool_use_id
    /\ \A m \in 1..Len(Before(t)) :
          (/\ tasks[t].active
           /\ Len(Before(t)) = tasks[t].seq
           /\ Before(t)[m].name = "toolUse"
           /\ \A n \in (m + 1)..Len(Before(t)) : Before(t)[n].name # "toolUse") =>
              tasks[t].tool_use_id = Before(t)[m].toolUseId

\* C15 as claimed: once the dispatch for a toolUse and its contentEnd has
\* ended, the output queue has received the toolUse, the contentEnd and then
\* contentStart, toolResult and contentEnd of the dispatch, and the backend
\* has received the same three in that order.
C15_BothThenThree ==
    \A t \in TaskIds :
        (tasks[t].pc = "done" /\ tasks[t].tool_name = "getDateTool" /\ tasks[t].active) =>
            /\ \E m \in 1..Len(Before(t)) : Before(t)[m].name = "toolUse"
            /\ \E m \in 1..Len(Before(t)) : Before(t)[m].seq = tasks[t].seq
            /\ AfterItsTurn(t)
            /\ Names(OfDispatch(egress_log, t)) = ThreeNames
            /\ Names(OfDispatch(backend_in, t)) = ThreeNames

\* C15 as amended: whatever the output queue has received of the toolUse and
\* its contentEnd (either may be dropped on overflow) comes before the
\* records of the dispatch; these are, in order, a contentStart of type TOOL
\* and role TOOL with the toolUse's toolUseId (the contentEnd having arrived
\* on an active session), a toolResult and a contentEnd,
\* all three once the dispatch ran to its end; the backend receives of the
\* same three those sent while the session is active and the write succeeds,
\* in the same order, all three when the dispatch ran to its end on a session
\* still active with no write failed.
C15_TurnThenDispatch ==
    \A t \in TaskIds :
        tasks[t].pc # "none" =>
            /\ AfterItsTurn(t)
            /\ StartCarriesId(t)
            /\ IsPrefix(Names(OfDispatch(egress_log, t)), ThreeNames)
            /\ IsSubSeq(Names(OfDispatch(backend_in, t)), ThreeNames)
            /\ (tasks[t].outcome = "finished" /\ ~LowerRaises(tasks[t].tool_name)) =>
                  /\ Names(OfDispatch(egress_log, t)) = ThreeNames
                  /\ (SendAllowed /\ ~tasks[t].failed) =>
                        Names(OfDispatch(backend_in, t)) = ThreeNames

\* The output queue received a toolUse, the contentEnd and then the three
\* records of the dispatch, and the backend the three.
C15_Witness ==
    \E t \in TaskIds :
        /\ tasks[t].outcome = "finished"
        /\ \E m \in 1..Len(Before(t)) : Before(t)[m].name = "toolUse"
        /\ \E m \in 1..Len(Before(t)) : Before(t)[m].seq = tasks[t].seq
        /\ Names(OfDispatch(egress_log, t)) = ThreeNames
        /\ Names(OfDispatch(backend_in, t)) = ThreeNames

\* ------------------------------------------------------------ error runs
\* Bound of the error runs: chunks the backend delivers.
ErrMaxRecv == 3

\* One session, initialised once: the backend sends events, chunks that are
\* not JSON, chunks that are not UTF-8, validation errors and other errors
\* and may end the stream; the front end may call close() at any moment and
\* the client may or may not drain the output queue.
ErrNext ==
    \/ \E i \in Pumps : EgressStart(i)
    \/ \E i \in Pumps : EgressPutWake(i)
    \/ \E i \in Pumps : EgressCancelled(i)
    \/ \E i \in Pumps : IngressStart(i, TRUE)
    \/ CloseStreamClosed
    \/ CloseResponseDone
    \/ init_count = 0 /\ initialize_stream(TRUE) /\ UNCHANGED <<script, serverVars, tool_call>>
    \/ InitInvoked(TRUE)
    \/ InitSlept
    \/ close /\ UNCHANGED <<script, serverVars, tool_call>>
    \/ ConsumeOutput
    \/ \E i \in Pumps : recv_count < ErrMaxRecv /\ EgressRecvEvent(i, TextOutputEv)
    \/ \E i \in Pumps, kind \in {"badjson", "validation"} :
          recv_count < ErrMaxRecv /\ EgressRecvError(i, kind)
    \/ \E i \in Pumps, kind \in {"eos", "exception", "badutf8"} :
          recv_count < ErrMaxRecv /\ EgressRecvEnd(i, kind)

SpecErr == Init /\ [][ErrNext]_vars

\* The response task reads a chunk of the given kinds on the active session.
Reads(kinds) ==
    /\ recv_count' = recv_count + 1
    /\ last_recv'.kind \in kinds
    /\ is_active /\ stream # 0
\* In this step the response task put the record rec on the output queue and
\* is back at its receive, the session as active as before.
PutAndGoesOn(rec) ==
    /\ egress_log' = Append(egress_log, rec)
    /\ egress'[last_recv'.by].pc = "recv"
    /\ is_active' /\ stream' = stream
    /\ "close" \notin returned'

\* C16: a chunk that is not UTF-8 JSON, whether its text is not JSON or its
\* bytes are not UTF-8, makes the response task put a raw_data record on the
\* output queue and go on with the next chunk, the session staying active.
C16_UndecodableGoesOn ==
    [][Reads({"badjson", "badutf8"}) => PutAndGoesOn(RawData(recv_count'))]_vars

\* C17: a receive that raises an error whose text contains
\* ValidationException makes the response task put the error envelope on the
\* output queue and go on with the next chunk: is_active and stream are
\* unchanged, the task has not left its loop and close() was not called.
C17_ValidationGoesOn ==
    [][Reads({"validation"}) => PutAndGoesOn(ErrorEnvelope(recv_count'))]_vars

\* ------------------------------------------------------------ sessionEnd
\* C18: in scenario S5, when the send_raw_event that wrote the sessionEnd to
\* the backend returns, close() has run: is_active is False and stream is
\* None.
C18_SessionEndCloses ==
    (/\ script.id = "S5"
     /\ "send_raw_event" \in returned
     /\ \E k \in 1..Len(backend_in) : backend_in[k].name = "sessionEnd") =>
        ~is_active /\ stream = 0

\* ------------------------------------------------------------- send runs
\* Bounds of the send runs: send_raw_event() calls of the front end,
\* add_audio_chunk() calls, chunks the backend delivers.
SendMaxSends == 2
SendMaxCalls == 1
SendMaxRecv == 2

\* One session, initialised once: the front end sends promptStart and
\* sessionEnd envelopes, each write succeeding or failing, queues audio and
\* may call close(); the backend sends events and may end the stream.
SendNext ==
    \/ \E i \in Pumps : EgressStart(i)
    \/ \E i \in Pumps : EgressCancelled(i)
    \/ \E i \in Pumps, ok \in BOOLEAN : IngressStart(i, ok)
    \/ \E i \in Pumps, ok \in BOOLEAN : IngressGetWake(i, ok)
    \/ \E i \in Pumps, ok \in BOOLEAN : IngressSendDone(i, ok)
    \/ CloseStreamClosed
    \/ CloseResponseDone
    \/ init_count = 0 /\ initialize_stream(TRUE) /\ UNCHANGED <<script, serverVars, tool_call>>
    \/ InitInvoked(TRUE)
    \/ InitSlept
    \/ close /\ UNCHANGED <<script, serverVars, tool_call>>
    \/ \E name \in {"promptStart", "sessionEnd"}, ok \in BOOLEAN :
          /\ fe_sends < SendMaxSends
          /\ send_raw_event(FeEnvelope(name), ok)
          /\ UNCHANGED <<script, serverVars, tool_call>>
    \/ SendDone
    \/ /\ audio_count < SendMaxCalls
       /\ add_audio_chunk(NextAudio)
       /\ UNCHANGED <<script, serverVars, tool_call>>
    \/ \E i \in Pumps : recv_count < SendMaxRecv /\ EgressRecvEvent(i, TextOutputEv)
    \/ \E i \in Pumps : recv_count < SendMaxRecv /\ EgressRecvEnd(i, "eos")

SpecSend == Init /\ [][SendNext]_vars

\* C19: when the write of the front end's envelope fails, send_raw_event
\* returns normally and leaves is_active, stream, both queues and the set of
\* tool tasks as they were, without calling close().
C19_SendFailureSwallowed ==
    [][(fe.pc = "send" /\ ~fe.ok /\ fe'.pc # "send") =>
          /\ fe' = FeIdle
          /\ returned' = {"send_raw_event"}
          /\ UNCHANGED <<is_active, stream, audio_input_queue, output_queue,
                         tool_processing_tasks>>]_vars

\* A send_raw_event has just returned after its write failed: the session is
\* active, the envelope is not among what the backend received and the
\* output queue holds a record.
C19_Witness ==
    /\ returned = {"send_raw_event"}
    /\ fe_sends = 1
    /\ is_active /\ stream # 0
    /\ fe.ev = NoEnvelope
    /\ \A k \in 1..Len(backend_in) : backend_in[k].name = "audioInput"
    /\ output_queue # <<>>

\* ------------------------------------------------------- failed initialize
\* C20: when initialize_stream() has just raised because the stream could not
\* be opened, is_active is False, stream is None and neither the response
\* task nor the audio task has been created.
C20_InitFailureLeavesClosed ==
    "initialize_stream raised" \in returned =>
        /\ ~is_active
        /\ stream = 0
        /\ response_task = 0
        /\ \A i \in Pumps : egress[i].pc = "none" /\ ingress[i].pc = "none"

\* initialize_stream() has just raised.
C20_Witness ==
    /\ "initialize_stream raised" \in returned
    /\ init_count = 1
    /\ bedrock_client

\* ------------------------------------------------- a handler that raises
\* processToolUse raises for the dispatch t: toolName.lower() (line 381)
\* fails on a name that is not a string, and toolUseContent.get (line 384)
\* fails on the "" that toolUseContent is before any toolUse has arrived.
HandlerRaises(t) ==
    LowerRaises(tasks[t].tool_name) \/ ~tasks[t].tool_use_content.dict

\* The three events of the dispatch t with the fixed error text as result.
ErrorEvents(t) ==
    <<content_start_tool(tasks[t].prompt_name, Uuid[t], tasks[t].tool_use_id),
      text_input_tool(tasks[t].prompt_name, Uuid[t], ToolErrorResult),
      content_end(tasks[t].prompt_name, Uuid[t])>>

\* C21: a dispatch whose handler raised, and that ran to its end on a
\* session active from its spawn on with no failed write, has put
\* contentStart, toolResult with the fixed error text and contentEnd on the
\* output queue and has written the same three to the backend.
C21_RaisingHandlerGivesErrorResult ==
    \A t \in TaskIds :
        (/\ tasks[t].outcome = "finished"
         /\ HandlerRaises(t)
         /\ tasks[t].active
         /\ SendAllowed
         /\ ~tasks[t].failed) =>
            /\ OfDispatch(egress_log, t) = ErrorEvents(t)
            /\ OfDispatch(backend_in, t) = ErrorEvents(t)

\* ------------------------------------------------- dispatches in parallel
\* Bounds of the parallel runs: chunks the backend delivers, tool tasks.
ParMaxRecv == 3
ParMaxTools == 2

\* One session, initialised once and not closed by the front end: the
\* backend sends well-formed events, among them toolUse and contentEnd of
\* type TOOL, and may end the stream; the client may or may not drain the
\* output queue.
ParNext ==
    \/ \E i \in Pumps : EgressStart(i)
    \/ \E i \in Pumps : IngressStart(i, TRUE)
    \/ \E t \in TaskIds : ToolStart(t, TRUE)
    \/ \E t \in TaskIds : ToolSendDone(t, TRUE)
    \/ \E t \in TaskIds : ToolPutWake(t, TRUE)
    \/ init_count = 0 /\ initialize_stream(TRUE) /\ UNCHANGED <<script, serverVars, tool_call>>
    \/ InitInvoked(TRUE)
    \/ InitSlept
    \/ ConsumeOutput
    \/ \E i \in Pumps :
          /\ recv_count < ParMaxRecv
          /\ EgressRecvEvent(i, ToolUseEv("getDateTool", ToolUseIds[recv_count + 1], "{}"))
    \/ \E i \in Pumps :
          /\ recv_count < ParMaxRecv
          /\ NextTaskId <= ParMaxTools
          /\ EgressRecvEvent(i, ContentEndEv("TOOL"))
    \/ \E i \in Pumps : recv_count < ParMaxRecv /\ EgressRecvEvent(i, TextOutputEv)
    \/ \E i \in Pumps : recv_count < ParMaxRecv /\ EgressRecvEnd(i, "eos")

SpecPar == Init /\ [][ParNext]_vars

\* The dispatches that were spawned and have not ended.
InFlight == {t \in TaskIds : tasks[t].pc \in {"new", "send", "put"}}

\* With a dispatch in flight, a response task that has started and not ended
\* is waiting for the next chunk of the backend, for nothing else.
PumpAwaitsBackend ==
    \A i \in Pumps :
        (InFlight # {} /\ egress[i].pc \notin {"none", "new", "done"}) =>
            egress[i].pc = "recv"

\* With a dispatch in flight, the response task reads a chunk that decodes
\* to an event: the event is put on the output queue unless the queue is
\* full, and the task goes on to the next receive.
ReceivesWhileInFlight ==
    (/\ InFlight # {}
     /\ recv_count' = recv_count + 1
     /\ last_recv'.kind = "event") =>
        /\ egress'[last_recv'.by].pc = "recv"
        /\ Len(output_queue) < OutputQueueMaxsize =>
              /\ Len(output_queue') = Len(output_queue) + 1
              /\ output_queue'[Len(output_queue')].seq = recv_count'
              /\ SubSeq(output_queue', 1, Len(output_queue)) = output_queue

\* C22: tool dispatches never hold up the response task: while dispatches
\* are in flight the task is waiting for the backend, and every event it
\* then receives is put on the output queue (room permitting) before it
\* goes on to the next receive.
C22_ToolsLeavePumpFree ==
    /\ []PumpAwaitsBackend
    /\ [][ReceivesWhileInFlight]_vars

\* Two dispatches are in flight at once and the response task, waiting for
\* the backend again, has put on the output queue an event it received after
\* spawning both.
C22_Witness ==
    /\ Cardinality(InFlight) = 2
    /\ egress[1].pc = "recv"
    /\ \E k \in 1..Len(output_queue) :
          /\ output_queue[k].name = "textOutput"
          /\ \A t \in InFlight : output_queue[k].seq > tasks[t].seq

\* ============================================== strands/websocket/server.py
\* --------------------------------------------------- credential refresher
\* The seconds of refresh_credentials_from_imds: the margin before expiry and
\* the least and the greatest interval (line 116), the interval for an
\* expiry that does not parse (line 119), the delay after a failure (lines
\* 124 and 131).
ExpiryMargin == 300
MinInterval == 60
MaxInterval == 3600
DefaultInterval == 3600
FailureDelay == 300

\* Bounds of the credential runs: retrievals from IMDS, startup_event calls.
MaxFetch == 3
MaxStartups == 2

Max(a, b) == IF a >= b THEN a ELSE b

\* A refresh interval computed with max and min exchanged.
refresh_interval_swapped(time_until_expiration) ==
    Max(Min(time_until_expiration - ExpiryMargin, MinInterval), MaxInterval)

\* Line 116: min(max(time_until_expiration - 300, 60), 3600).
refresh_interval(time_until_expiration) ==
    Min(Max(time_until_expiration - ExpiryMargin, MinInterval), MaxInterval)

\* Seconds from the retrieval to the expiry of the credentials IMDS hands out.
Lifetimes == {30, 120, 360, 3600, 3900, 10000}

\* What a call of get_credentials_from_imds() at this moment can return: a
\* failure, credentials with an expiry, credentials whose "Expiration" does
\* not parse.
ImdsResults ==
    {ImdsResult(FALSE, FALSE, 0), ImdsResult(TRUE, FALSE, 0)}
        \cup {ImdsResult(TRUE, TRUE, now + l) : l \in Lifetimes}

\* The three assignments to os.environ, from the n-th result.
Publish(n) ==
    [AWS_ACCESS_KEY_ID |-> SetFrom(n), AWS_SECRET_ACCESS_KEY |-> SetFrom(n),
     AWS_SESSION_TOKEN |-> SetFrom(n)]

\* Lines 104-106 (and 160-162) with the n-th result r on the environment
\* env: os.environ[..] = None raises TypeError, so the assignments stop at
\* the first key the result lacks and those before it have taken effect.
PublishFrom(env, n, r) ==
    IF r.lacks = "none" THEN Publish(n)
    ELSE [AWS_ACCESS_KEY_ID |->
              IF r.lacks = "AccessKeyId" THEN env.AWS_ACCESS_KEY_ID ELSE SetFrom(n),
          AWS_SECRET_ACCESS_KEY |->
              IF r.lacks = "Token" THEN SetFrom(n) ELSE env.AWS_SECRET_ACCESS_KEY,
          AWS_SESSION_TOKEN |-> env.AWS_SESSION_TOKEN]

NextRefreshId == Cardinality({t \in RefreshIds : refresh_tasks[t].pc # "none"}) + 1

\* Line 152: os.getenv of both variables is truthy.
HasEnvCredentials ==
    environ.AWS_ACCESS_KEY_ID.set /\ environ.AWS_SECRET_ACCESS_KEY.set

\* A startup_event that creates its refresh task whatever os.environ holds.
startup_event_unguarded(r) ==
    LET t == NextRefreshId IN
    /\ server.shutdown = "no"
    /\ server.startups < MaxStartups
    /\ server' = [server EXCEPT !.startups = @ + 1]
    /\ Len(imds) < MaxFetch
    /\ t <= MaxRefreshTasks
    /\ imds' = Append(imds, r)
    /\ IF r.success
       THEN /\ environ' = Publish(Len(imds'))
            /\ credential_refresh_task' = t
            /\ refresh_tasks' =
                  [refresh_tasks EXCEPT ![t] = [NoRefresh EXCEPT !.pc = "new"]]
       ELSE UNCHANGED <<environ, credential_refresh_task, refresh_tasks>>
    /\ UNCHANGED <<now, wsVars, sessionVars, script>>

\* startup_event (lines 145-171), which never suspends; r is what IMDS
\* returns if it is asked.
startup_event(r) ==
    LET t == NextRefreshId
        \* An assignment of lines 160-162 raises: the exception leaves
        \* startup_event and the application does not start.
        raises == ~HasEnvCredentials /\ r.success /\ r.lacks # "none"
    IN
    /\ server.shutdown = "no"
    /\ server.startups < MaxStartups
    /\ server' = [server EXCEPT !.startups = @ + 1,
                                !.shutdown = IF raises THEN "failed" ELSE @]
    /\ IF HasEnvCredentials
       THEN UNCHANGED <<environ, credential_refresh_task, refresh_tasks, imds>>
       ELSE /\ Len(imds) < MaxFetch
            /\ t <= MaxRefreshTasks
            /\ imds' = Append(imds, r)
            /\ IF r.success
               THEN /\ environ' = PublishFrom(environ, Len(imds'), r)
                    /\ IF raises
                       THEN UNCHANGED <<credential_refresh_task, refresh_tasks>>
                       ELSE /\ credential_refresh_task' = t
                            /\ refresh_tasks' =
                                  [refresh_tasks EXCEPT
                                      ![t] = [NoRefresh EXCEPT !.pc = "new"]]
               ELSE UNCHANGED <<environ, credential_refresh_task, refresh_tasks>>
    /\ UNCHANGED <<now, wsVars, sessionVars, script>>

\* One turn of the loop of refresh_credentials_from_imds (lines 97-131) by
\* the task t, from the retrieval, which returns r, to the sleep.
RefreshLoop(t, r) ==
    LET \* An assignment of lines 104-106 raises: `except Exception` (lines
        \* 129-131) logs and sleeps.
        raises == r.success /\ r.lacks # "none"
        interval ==
            IF ~r.success \/ raises THEN FailureDelay
            ELSE IF r.parses THEN refresh_interval(r.expiration - now)
            ELSE DefaultInterval
    IN
    /\ ~refresh_tasks[t].cancel
    /\ Len(imds) < MaxFetch
    /\ imds' = Append(imds, r)
    /\ environ' = IF r.success THEN PublishFrom(environ, Len(imds'), r) ELSE environ
    /\ refresh_tasks' =
          [refresh_tasks EXCEPT ![t] =
              [@ EXCEPT !.pc = "sleep", !.wake = now + interval,
                        !.after = IF raises THEN "error"
                                  ELSE IF r.success THEN "success" ELSE "failure"]]
    /\ UNCHANGED <<now, credential_refresh_task, server, wsVars, sessionVars,
                   script>>

\* The first step of a refresh task.
RefreshStart(t, r) ==
    /\ refresh_tasks[t].pc = "new"
    /\ RefreshLoop(t, r)

\* asyncio.sleep is over.
RefreshWake(t, r) ==
    /\ refresh_tasks[t].pc = "sleep"
    /\ now >= refresh_tasks[t].wake
    /\ RefreshLoop(t, r)

\* task.cancel() took effect: the loop is left (lines 126-128), or the task
\* is cancelled in the sleep of line 131 or before its first step.
RefreshCancelled(t) ==
    /\ refresh_tasks[t].pc \in {"new", "sleep"}
    /\ refresh_tasks[t].cancel
    /\ refresh_tasks' =
          [refresh_tasks EXCEPT ![t].pc = "done", ![t].outcome = "cancelled"]
    /\ UNCHANGED <<now, environ, credential_refresh_task, imds, server, wsVars,
                   sessionVars, script>>

RefreshDone(t) == refresh_tasks[t].pc = "done"

\* shutdown_event (lines 174-185) up to its await.
shutdown_event ==
    LET t == credential_refresh_task IN
    /\ server.shutdown = "no"
    /\ IF t # 0 /\ ~RefreshDone(t)
       THEN /\ refresh_tasks' = [refresh_tasks EXCEPT ![t].cancel = TRUE]
            /\ server' = [server EXCEPT !.shutdown = "awaiting"]
       ELSE /\ server' = [server EXCEPT !.shutdown = "done"]
            /\ UNCHANGED refresh_tasks
    /\ UNCHANGED <<now, environ, credential_refresh_task, imds, wsVars,
                   sessionVars, script>>

\* The awaited task has ended: shutdown_event returns.
ShutdownDone ==
    /\ server.shutdown = "awaiting"
    /\ RefreshDone(credential_refresh_task)
    /\ server' = [server EXCEPT !.shutdown = "done"]
    /\ UNCHANGED <<now, environ, credential_refresh_task, refresh_tasks, imds,
                   wsVars, sessionVars, script>>

\* The refresh tasks that are alive: created and not ended.
AliveRefresh == {t \in RefreshIds : refresh_tasks[t].pc \in {"new", "sleep"}}

\* The result the access key in os.environ came from, and its expiry.
Published == imds[environ.AWS_ACCESS_KEY_ID.from]
HasExpiry ==
    /\ environ.AWS_ACCESS_KEY_ID.set
    /\ environ.AWS_ACCESS_KEY_ID.from > 0
    /\ Published.parses

\* The instants at which something is due: a sleep ends, the credentials
\* in os.environ expire.
Instants ==
    {refresh_tasks[t].wake : t \in {u \in RefreshIds : refresh_tasks[u].pc = "sleep"}}
        \cup (IF HasExpiry THEN {Published.expiration} ELSE {})

\* Time passes up to the instant to, not beyond the end of a sleep.
Advance(to) ==
    /\ to > now
    /\ \A t \in RefreshIds :
          (refresh_tasks[t].pc = "sleep" /\ ~refresh_tasks[t].cancel) =>
              to <= refresh_tasks[t].wake
    /\ now' = to
    /\ UNCHANGED <<environ, credential_refresh_task, refresh_tasks, imds, server,
                   wsVars, sessionVars, script>>

\* The server process from its start, in local mode or not: startup_event,
\* the refresh task, shutdown_event and the clock.
ServerInit ==
    /\ InitSession
    /\ script = NoScript
    /\ tool_call = NoCall
    /\ \E env \in {NoCredentials, StaticCredentials} : InitServer(env, <<>>)

ServerNext ==
    \/ \E r \in ImdsResults : startup_event(r)
    \/ \E t \in RefreshIds, r \in ImdsResults : RefreshStart(t, r)
    \/ \E t \in RefreshIds, r \in ImdsResults : RefreshWake(t, r)
    \/ \E t \in RefreshIds : RefreshCancelled(t)
    \/ shutdown_event
    \/ ShutdownDone
    \/ \E to \in Instants : Advance(to)

SpecServer == ServerInit /\ [][ServerNext]_vars

\* The last retrieval from IMDS failed.
LastFetchFailed == imds # <<>> /\ ~imds[Len(imds)].success

\* A refresh task sleeps after a failed retrieval, to try again within
\* FailureDelay seconds.
RetryPending ==
    \E t \in AliveRefresh :
        /\ refresh_tasks[t].pc = "sleep"
        /\ refresh_tasks[t].after = "failure"
        /\ refresh_tasks[t].wake <= now + FailureDelay

\* C23: whenever the last retrieval of credentials from IMDS failed, at
\* startup or in a refresh, and the server is not shutting down, the
\* refresher is waiting to try again, at most 300 s later.
C23_FailedFetchIsRetried ==
    (LastFetchFailed /\ server.shutdown = "no") => RetryPending

\* The credentials in os.environ have an expiry and it has passed.
Expired == HasExpiry /\ now >= Published.expiration

\* startup_event has run and shutdown_event has not.
Serving == server.startups > 0 /\ server.shutdown = "no"

\* C24: at every moment after startup (and before shutdown), os.environ
\* holds credentials that have not expired, or a refresh task is alive: the
\* store is never without usable credentials and without a refresher.
C24_UsableOrRefreshing ==
    Serving => \/ HasEnvCredentials /\ ~Expired
               \/ AliveRefresh # {}

\* The refresh task t has just gone to sleep after a successful retrieval.
SleptAfterSuccess(t) ==
    /\ Len(imds') = Len(imds) + 1
    /\ imds'[Len(imds')].success
    /\ refresh_tasks'[t] # refresh_tasks[t]
    /\ refresh_tasks'[t].pc = "sleep"

\* The delay the claim gives for credentials that expire ahead seconds
\* after their retrieval.
ClaimedDelay(ahead) ==
    IF ahead - 300 < 60 THEN 60
    ELSE IF ahead - 300 > 3600 THEN 3600
    ELSE ahead - 300

\* C25: after each successful retrieval the refresh task sleeps
\* min(max(expiry - now - 300, 60), 3600) seconds, a delay within
\* [60, 3600]: 3300 for an expiry 3600 s ahead, 60 for 120 s ahead, 3600 for
\* 10000 s ahead.
C25_RefreshDelay ==
    [][\A t \in RefreshIds :
          SleptAfterSuccess(t) =>
              LET r == imds'[Len(imds')]
                  delay == refresh_tasks'[t].wake - now
                  ahead == r.expiration - now
              IN /\ delay >= 60 /\ delay <= 3600
                 /\ r.parses =>
                       /\ delay = ClaimedDelay(ahead)
                       /\ ahead = 3600 => delay = 3300
                       /\ ahead = 120 => delay = 60
                       /\ ahead = 10000 => delay = 3600]_vars

\* A refresh task sleeps after retrieving credentials that expire 3600 s
\* after the retrieval: it will wake 300 s before they expire, 3300 s after.
C25_Witness ==
    \E t \in AliveRefresh :
        /\ refresh_tasks[t].pc = "sleep"
        /\ refresh_tasks[t].after = "success"
        /\ imds[Len(imds)].success
        /\ imds[Len(imds)].parses
        /\ imds[Len(imds)].expiration = now + 3600
        /\ refresh_tasks[t].wake = now + 3300

\* The refresh tasks ever created.
CreatedRefresh == {t \in RefreshIds : refresh_tasks[t].pc # "none"}

\* startup_event is invoked while a refresh task is alive or with
\* credentials in os.environ: nothing of the refresher changes.
SecondStartIsNoOp ==
    (/\ server'.startups = server.startups + 1
     /\ AliveRefresh # {} \/ HasEnvCredentials) =>
        UNCHANGED <<environ, credential_refresh_task, refresh_tasks, imds, now>>

\* C26: the process never has more than one refresh task, and a
\* startup_event invoked while a task is alive or after credentials were
\* published creates no task and changes nothing.
C26_OneRefreshTask ==
    /\ [](Cardinality(CreatedRefresh) <= 1)
    /\ [][SecondStartIsNoOp]_vars

\* startup_event has been invoked a second time with the refresh task of the
\* first alive and its credentials published: there is still one task.
C26_Witness ==
    /\ server.startups = 2
    /\ credential_refresh_task # 0
    /\ AliveRefresh = {credential_refresh_task}
    /\ environ.AWS_ACCESS_KEY_ID.from > 0

\* ===================================================== processToolUse alone
\* str.upper() of one character.
UpperChar(c) ==
    IF \E k \in 1..Len(LowerCase) : LowerCase[k] = c
    THEN UpperCase[CHOOSE k \in 1..Len(LowerCase) : LowerCase[k] = c]
    ELSE c

\* Every way of writing name in upper and lower case.
Casings(name) ==
    {[k \in 1..Len(name) |-> IF k \in S THEN UpperChar(name[k]) ELSE name[k]] :
        S \in SUBSET (1..Len(name))}

\* Tool names that are no casing of "getDateTool".
OtherNames ==
    {<<>>,
     <<"g", "e", "t", "D", "a", "t", "e">>,
     <<"g", "e", "t", "D", "a", "t", "e", "T", "o", "o", "l", "s">>,
     <<"g", "e", "t", "D", "a", "t", "e", "T", "o", "o", "1">>,
     <<"g", "e", "t", "_", "d", "a", "t", "e", "_", "t", "o", "o", "l">>,
     <<"g", "e", "t", "T", "i", "m", "e", "T", "o", "o", "l">>,
     <<"O", "t", "h", "e", "r", "T", "o", "o", "l">>}

\* The toolUseContent of a call: the toolUse dict with a content, the dict
\* without one, or the "" that is no dict.
CallContents ==
    {[dict |-> TRUE, content |-> "{}"], [dict |-> TRUE, content |-> ""],
     NoToolUseContent}

\* processToolUse is called with a tool name and a toolUseContent.
CallInit ==
    /\ InitSession
    /\ script = NoScript
    /\ InitServer(NoCredentials, <<>>)
    /\ \E name \in Casings(getdatetool) \cup OtherNames, tuc \in CallContents,
          is_str \in BOOLEAN :
          /\ ~is_str => name = <<>>
          /\ tool_call = [NoCall EXCEPT !.pc = "called", !.toolName = name,
                                        !.is_str = is_str,
                                        !.toolUseContent = tuc]

\* processToolUse (lines 377-411), which never suspends: it returns a
\* result, or raises at line 381 for a name that is not a string.
processToolUseCall ==
    /\ tool_call.pc = "called"
    /\ tool_call' =
          IF ~tool_call.is_str THEN [tool_call EXCEPT !.pc = "raised"]
          ELSE [tool_call EXCEPT
                   !.pc = "returned",
                   !.result = processToolUse(tool_call.toolName,
                                             tool_call.toolUseContent)]
    /\ UNCHANGED <<managerVars, script, serverVars>>

CallNext == processToolUseCall

SpecCall == CallInit /\ [][CallNext]_vars

\* name is "getDateTool" in some casing: of its length, and letter by letter
\* the same up to case.
IsGetDateTool(name) ==
    /\ Len(name) = Len(getdatetool)
    /\ \A k \in 1..Len(name) :
          name[k] = getdatetool[k] \/ name[k] = UpperChar(getdatetool[k])

\* C27: for a tool name that is a string and a toolUseContent that is a
\* dict, processToolUse returns the date handler's result for every casing
\* of "getDateTool" and "no result found" for every other name.
C27_HandlerByCaseFoldedName ==
    (tool_call.pc = "returned" /\ tool_call.toolUseContent.dict) =>
        tool_call.result =
            IF IsGetDateTool(tool_call.toolName) THEN "date in UTC"
            ELSE "no result found"

\* processToolUse has returned the date for the name written "getDateTool".
C27_Witness ==
    /\ tool_call.pc = "returned"
    /\ tool_call.toolUseContent.dict
    /\ tool_call.toolName = Spelling("getDateTool")
    /\ tool_call.result = "date in UTC"

\* ================================================== handle_websocket_input
\* Bounds of the input runs: messages of the client, calls of the handler.
WsMaxMessages == 3
WsMaxCalls == 2

\* A message of the client as receive_json() yields it: its "type" ("" for
\* a message without one) and its "text", if it has one.
Message(type, has_text, text) ==
    [type |-> type, has_text |-> has_text, text |-> text]
Messages ==
    {Message("text_input", TRUE, "t1"), Message("text_input", TRUE, "t2"),
     Message("text_input", FALSE, ""), Message("audio_input", FALSE, ""),
     Message("", TRUE, "t3")}

RECURSIVE SeqsUpTo(_, _)
\* The sequences over S of length up to n.
SeqsUpTo(S, n) ==
    IF n = 0 THEN {<<>>}
    ELSE LET shorter == SeqsUpTo(S, n - 1)
         IN shorter \cup {Append(q, m) : q \in shorter, m \in S}

\* A handler that takes every message but audio for text.
IsTextInputUnlessAudio(message) == message.type # "audio_input"

\* Line 233: message.get("type") == "text_input".
IsTextInput(message) == message.type = "text_input"
\* Line 234: message.get("text", "").
TextOf(message) == IF message.has_text THEN message.text ELSE ""

\* agent.run calls handle_websocket_input for its next input.
handle_websocket_input ==
    /\ ws_input.pc \in {"none", "returned"}
    /\ ws_input.calls < WsMaxCalls
    /\ ws_input' = [ws_input EXCEPT !.pc = "receive", !.calls = @ + 1]
    /\ UNCHANGED <<websocket, agent_sent, credentialVars, sessionVars, script>>

\* websocket.receive_json() yields the next message (lines 230-242): a
\* text_input goes to agent.send, where the handler suspends; any other
\* message is returned.
WsReceive ==
    LET message == Head(websocket) IN
    /\ ws_input.pc = "receive"
    /\ websocket # <<>>
    /\ websocket' = Tail(websocket)
    /\ IF IsTextInput(message)
       THEN /\ agent_sent' = Append(agent_sent, TextOf(message))
            /\ ws_input' = [ws_input EXCEPT !.pc = "send",
                                            !.received = Append(@, message)]
       ELSE /\ agent_sent' = agent_sent
            /\ ws_input' = [ws_input EXCEPT !.pc = "returned",
                                            !.received = Append(@, message),
                                            !.returned = Append(@, message)]
    /\ UNCHANGED <<credentialVars, sessionVars, script>>

\* agent.send returned: on to the next message (line 239); or it raised,
\* and the exception leaves the handler.
WsSendDone(ok) ==
    /\ ws_input.pc = "send"
    /\ ws_input' = [ws_input EXCEPT !.pc = IF ok THEN "receive" ELSE "raised"]
    /\ UNCHANGED <<websocket, agent_sent, credentialVars, sessionVars, script>>

\* The client is gone: receive_json() raises WebSocketDisconnect, which
\* leaves the handler.
WsDisconnect ==
    /\ ws_input.pc = "receive"
    /\ websocket = <<>>
    /\ ws_input' = [ws_input EXCEPT !.pc = "raised"]
    /\ UNCHANGED <<websocket, agent_sent, credentialVars, sessionVars, script>>

\* A connection whose client sends any sequence of up to WsMaxMessages
\* messages and then leaves.
WsInit ==
    /\ InitSession
    /\ script = NoScript
    /\ tool_call = NoCall
    /\ \E msgs \in SeqsUpTo(Messages, WsMaxMessages) :
          InitServer(NoCredentials, msgs)

WsNext ==
    \/ handle_websocket_input
    \/ WsReceive
    \/ \E ok \in BOOLEAN : WsSendDone(ok)
    \/ WsDisconnect

SpecWs == WsInit /\ [][WsNext]_vars

\* The texts of the text_input messages of log, in order.
RECURSIVE TextsOf(_)
TextsOf(log) ==
    IF log = <<>> THEN <<>>
    ELSE IF Head(log).type = "text_input"
    THEN <<IF Head(log).has_text THEN Head(log).text ELSE "">> \o TextsOf(Tail(log))
    ELSE TextsOf(Tail(log))

\* C28: agent.send got the text of every text_input message received, once
\* each and in the order of arrival, and nothing else; the handler returned
\* the messages received that are no text_input and only those, each call
\* returning at its first one.
C28_TextForwardedOthersReturned ==
    /\ agent_sent = TextsOf(ws_input.received)
    /\ ws_input.returned =
          SelectSeq(ws_input.received, LAMBDA m : m.type # "text_input")
    /\ Len(ws_input.returned) =
          IF ws_input.pc \in {"none", "returned"} THEN ws_input.calls
          ELSE ws_input.calls - 1

\* A call has forwarded two texts and then returned an audio message.
C28_Witness ==
    /\ ws_input.pc = "returned"
    /\ agent_sent = <<"t1", "t2">>
    /\ ws_input.returned = <<Message("audio_input", FALSE, "")>>
    /\ Len(ws_input.received) = 3

\* ------------------------------------------------- overflow of the output
\* The response task reads a chunk that decodes to an event while the
\* output queue is full.
EventOnFullQueue ==
    /\ recv_count' = recv_count + 1
    /\ last_recv'.kind = "event"
    /\ Len(output_queue) = OutputQueueMaxsize

\* The queue is as it was, nothing was put, and is_active and stream are as
\* they were.
EventDropped ==
    /\ output_queue' = output_queue
    /\ egress_log' = egress_log
    /\ is_active' = is_active
    /\ stream' = stream

\* C29: an event decoded while the output queue is full is the one dropped:
\* the queue keeps its records in their order, is_active and stream stay as
\* they are, and the response task of an active session goes on to the next
\* receive (one that finds is_active False, close() being under way, leaves
\* its loop as after any other event).
C29_DropNewest ==
    [][EventOnFullQueue =>
          /\ EventDropped
          /\ egress'[last_recv'.by].pc = IF is_active /\ stream # 0 THEN "recv" ELSE "done"]_vars

\* Three events have been decoded on the active session, the third with the
\* queue full: the queue holds the first two and the response task waits for
\* the next chunk.
C29_Witness ==
    /\ recv_count = OutputQueueMaxsize + 1
    /\ last_recv.kind = "event"
    /\ Len(output_queue) = OutputQueueMaxsize
    /\ Len(egress_log) = OutputQueueMaxsize
    /\ \A k \in 1..Len(output_queue) : output_queue[k].seq = k
    /\ is_active
    /\ egress[last_recv.by].pc = "recv"

\* ------------------------------------------------ the cancelled response task
\* close() has cancelled the response task i, which has not ended yet.
CancelPending(i) == egress[i].cancel /\ egress[i].pc # "done"

\* C30: from the moment close() has cancelled the response task until the
\* task has ended, no chunk is received and no tool task is created, and the
\* one step the task still takes ends it as cancelled: this step puts
\* nothing on the output queue, leaves is_active as it is and is not a
\* return of close().
C30_CancelledPumpDoesNothing ==
    [][\A i \in Pumps :
          CancelPending(i) =>
              /\ recv_count' = recv_count
              /\ last_recv' = last_recv
              /\ \A t \in TaskIds : tasks[t].pc = "none" => tasks'[t].pc = "none"
              /\ egress'[i] # egress[i] =>
                    /\ egress'[i].pc = "done"
                    /\ egress'[i].outcome = "cancelled"
                    /\ UNCHANGED <<output_queue, egress_log, is_active, stream,
                                   tasks, tool_processing_tasks, backend_in>>
                    /\ "close" \notin returned']_vars

\* The response task had received a chunk and was cancelled by a close()
\* that has now returned.
C30_Witness ==
    /\ "close" \in returned
    /\ stream = 0
    /\ recv_count > 0
    /\ \E i \in Pumps : egress[i].pc = "done" /\ egress[i].outcome = "cancelled"

\* ------------------------------------------------ one dispatch per toolUse
\* The dispatches that were spawned for the toolUse with the given id (every
\* toolUse of the runs carries an id of its own).
DispatchesOf(id) == {t \in TaskIds : tasks[t].pc # "none" /\ tasks[t].tool_use_id = id}

\* C31: each toolUse is dispatched at most once: no two dispatches are
\* spawned with the toolUseId of the same toolUse.
C31_ToolUseDispatchedOnce ==
    \A n \in 1..Len(ToolUseIds) : Cardinality(DispatchesOf(ToolUseIds[n])) <= 1

\* ------------------------------------------------------------ reset runs
\* Bounds of the reset runs: chunks the backend delivers, tool tasks
\* spawned, add_audio_chunk() calls.
ResetMaxRecv == 2
ResetMaxTools == 2
ResetMaxAudio == 1

\* One session, initialised once: the backend asks for tools, the producer
\* queues audio, the front end sets the correlation names and may call
\* reset_session_state() and close() at any moment, and the client may or
\* may not drain the output queue.
ResetNext ==
    \/ \E i \in Pumps : EgressStart(i)
    \/ \E i \in Pumps : EgressCancelled(i)
    \/ \E i \in Pumps : IngressStart(i, TRUE)
    \/ ToolStep
    \/ CloseStep
    \/ init_count = 0 /\ initialize_stream(TRUE) /\ UNCHANGED <<script, serverVars, tool_call>>
    \/ InitInvoked(TRUE)
    \/ InitSlept
    \/ close /\ UNCHANGED <<script, serverVars, tool_call>>
    \/ reset_session_state /\ UNCHANGED <<script, serverVars, tool_call>>
    \/ SetNames /\ UNCHANGED <<script, serverVars, tool_call>>
    \/ /\ audio_count < ResetMaxAudio
       /\ add_audio_chunk(NextAudio)
       /\ UNCHANGED <<script, serverVars, tool_call>>
    \/ ConsumeOutput
    \/ \E i \in Pumps :
          /\ recv_count < ResetMaxRecv
          /\ EgressRecvEvent(i, ToolUseEv("getDateTool", ToolUseIds[recv_count + 1], "{}"))
    \/ \E i \in Pumps :
          /\ recv_count < ResetMaxRecv
          /\ NextTaskId <= ResetMaxTools
          /\ EgressRecvEvent(i, ContentEndEv("TOOL"))

SpecReset == Init /\ [][ResetNext]_vars

\* C32: tool_processing_tasks is in every state the set of the dispatches
\* that were spawned and have not ended.
C32_TracksUnfinishedDispatches == tool_processing_tasks = InFlight

\* reset_session_state() has just returned.
ResetReturned == "reset_session_state" \in returned

\* C33: when reset_session_state() returns, both queues are empty, the set
\* of tool tasks is empty and every task it held that had not ended is
\* cancelled, the tool fields and the three correlation names are cleared,
\* and is_active, the stream, the response task and the state of the pumps
\* are what they were.
C33_ResetClearsAndKeepsOpen ==
    [][ResetReturned' =>
          /\ audio_input_queue' = <<>>
          /\ output_queue' = <<>>
          /\ tool_processing_tasks' = {}
          /\ \A t \in tool_processing_tasks :
                tasks[t].pc # "done" => tasks'[t].cancel /\ tasks'[t].pc = tasks[t].pc
          /\ \A t \in TaskIds \ tool_processing_tasks : tasks'[t] = tasks[t]
          /\ toolUseContent' = NoToolUseContent
          /\ toolUseId' = ""
          /\ toolName' = ""
          /\ prompt_name' = None
          /\ content_name' = None
          /\ audio_content_name' = None
          /\ UNCHANGED <<is_active, stream, response_task, egress, ingress,
                         closed_streams, backend_in>>]_vars

\* reset_session_state() has returned on an active session that had received
\* events and audio: a dispatch is cancelled and not yet ended, and the
\* response task is still waiting for the backend.
C33_Witness ==
    /\ ResetReturned
    /\ is_active
    /\ stream # 0
    /\ response_task # 0
    /\ egress[response_task].pc = "recv"
    /\ egress_log # <<>>
    /\ audio_count > 0
    /\ \E t \in TaskIds : tasks[t].cancel /\ tasks[t].pc \in {"new", "send", "put"}

\* ----------------------------------------------------------- record runs
\* Bounds of the record runs: add_audio_chunk() calls, chunks the backend
\* delivers.
RecordMaxCalls == 3
RecordMaxRecv == 1

\* What the k-th call of the producer queues: a complete record, one with an
\* empty prompt name, content name or audio, or one whose audio is bytes
\* that do not decode.
RecordKinds == {"whole", "no_prompt", "no_content", "no_bytes", "raises"}
RecordCall(k, kind) ==
    AudioRecord(IF kind = "no_prompt" THEN "" ELSE "p",
                IF kind = "no_content" THEN "" ELSE "a",
                CASE kind = "no_bytes" -> ""
                  [] kind = "raises" -> "undecodable"
                  [] OTHER -> AudioBytes[k])

\* One session, initialised once: the producer queues records of every kind
\* at any moment, the audio task runs, the backend may end the stream and
\* the front end may call close() at any moment.
RecordNext ==
    \/ \E i \in Pumps : EgressStart(i)
    \/ \E i \in Pumps : EgressCancelled(i)
    \/ \E i \in Pumps : IngressStart(i, TRUE)
    \/ \E i \in Pumps : IngressGetWake(i, TRUE)
    \/ \E i \in Pumps : IngressSendDone(i, TRUE)
    \/ CloseStreamClosed
    \/ CloseResponseDone
    \/ init_count = 0 /\ initialize_stream(TRUE) /\ UNCHANGED <<script, serverVars, tool_call>>
    \/ InitInvoked(TRUE)
    \/ InitSlept
    \/ close /\ UNCHANGED <<script, serverVars, tool_call>>
    \/ \E kind \in RecordKinds :
          /\ audio_count < RecordMaxCalls
          /\ add_audio_chunk(RecordCall(audio_count + 1, kind))
          /\ UNCHANGED <<script, serverVars, tool_call>>
    \/ \E i \in Pumps : recv_count < RecordMaxRecv /\ EgressRecvEnd(i, "eos")

SpecRecord == Init /\ [][RecordNext]_vars

\* The records of log that neither lack a field nor raise, as events.
EventsOfSendable(log) ==
    LET S == SelectSeq(log, LAMBDA d : ~AudioMissing(d) /\ ~AudioRaises(d))
    IN [k \in 1..Len(S) |-> AudioEventOf(S[k])]

\* The audio task takes from the queue whose first record raises.
TakesRaising ==
    /\ audio_input_queue # <<>>
    /\ AudioRaises(Head(audio_input_queue))
    /\ audio_input_queue' # audio_input_queue
    /\ audio_count' = audio_count
    /\ fe' = fe

\* s is what is left of t after some of its first elements were taken.
IsSuffix(s, t) ==
    /\ Len(s) <= Len(t)
    /\ s = SubSeq(t, Len(t) - Len(s) + 1, Len(t))

\* C34: a record whose processing raises does not stop the audio task: the
\* step that takes it leaves is_active as it is, takes records from the head
\* of the queue only and leaves the task in its loop (waiting for a record
\* or for a write) while the session is active; and once the task has
\* drained the queue of the active session, the records that neither raised
\* nor lacked a field have all been written to the backend, in the order
\* they were queued.
C34_RaisingRecordSkipped ==
    /\ []((is_active /\ Drained) => SentAudio = EventsOfSendable(audio_log))
    /\ [][TakesRaising =>
             /\ is_active' = is_active
             /\ IsSuffix(audio_input_queue', Tail(audio_input_queue))
             /\ is_active =>
                   \E i \in Pumps : ingress'[i].pc \in {"get", "send"}]_vars

\* On an active session the queue is drained; a record that raises was
\* queued between two complete ones, and both of these were written.
C34_Witness ==
    /\ is_active /\ Drained
    /\ Len(audio_log) = 3
    /\ ~AudioRaises(audio_log[1]) /\ ~AudioMissing(audio_log[1])
    /\ AudioRaises(audio_log[2])
    /\ ~AudioRaises(audio_log[3]) /\ ~AudioMissing(audio_log[3])
    /\ SentAudio = <<AudioEventOf(audio_log[1]), AudioEventOf(audio_log[3])>>

\* ------------------------------------------------------ incomplete records
\* The audio task takes from the queue whose first record lacks a field.
TakesIncomplete ==
    /\ audio_input_queue # <<>>
    /\ AudioMissing(Head(audio_input_queue))
    /\ audio_input_queue' # audio_input_queue
    /\ audio_count' = audio_count
    /\ fe' = fe

\* The audioInput event e carries a prompt name, a content name and audio.
CompleteEvent(e) == e.promptName # "" /\ e.contentName # "" /\ e.content # ""

\* C39: no audioInput event written to the backend lacks a prompt name, a
\* content name or audio; the step of the audio task that takes a record
\* lacking one of them removes it from the head of the queue, writes nothing
\* for it and leaves the task in its loop while the session is active; and
\* once the task has drained the queue of the active session, every complete
\* record has been written, in order.
C39_IncompleteNeverSent ==
    /\ [](\A k \in 1..Len(SentAudio) : CompleteEvent(SentAudio[k]))
    /\ []((is_active /\ Drained) =>
             \A k \in 1..Len(audio_log) :
                 (~AudioMissing(audio_log[k]) /\ ~AudioRaises(audio_log[k])) =>
                     \E m \in 1..Len(SentAudio) : SentAudio[m] = AudioEventOf(audio_log[k]))
    /\ [][TakesIncomplete =>
             /\ IsSuffix(audio_input_queue', Tail(audio_input_queue))
             /\ \A k \in (Len(backend_in) + 1)..Len(backend_in') :
                   backend_in'[k] # AudioEventOf(Head(audio_input_queue))
             /\ is_active =>
                   \E i \in Pumps : ingress'[i].pc \in {"get", "send"}]_vars

\* On an active session the queue is drained: a record without prompt name
\* and one without audio were queued around a complete one, and only the
\* complete one was written.
C39_Witness ==
    /\ is_active /\ Drained
    /\ Len(audio_log) = 3
    /\ audio_log[1].prompt_name = ""
    /\ ~AudioMissing(audio_log[2]) /\ ~AudioRaises(audio_log[2])
    /\ audio_log[3].audio_bytes = ""
    /\ SentAudio = <<AudioEventOf(audio_log[2])>>

\* ------------------------------------------------------------ guard runs
\* Bounds of the guard runs: send_raw_event() calls of the front end,
\* add_audio_chunk() calls, chunks the backend delivers, tool tasks spawned.
GuardMaxSends == 1
GuardMaxCalls == 1
GuardMaxRecv == 2
GuardMaxTools == 1

\* One session, initialised once, with every writer of the backend's input:
\* the audio task, a tool dispatch and the front end's send_raw_event; the
\* backend may end the stream and the front end may call close() at any
\* moment.
GuardNext ==
    \/ PumpStep
    \/ ToolStep
    \/ CloseStep
    \/ init_count = 0 /\ initialize_stream(TRUE) /\ UNCHANGED <<script, serverVars, tool_call>>
    \/ InitInvoked(TRUE)
    \/ InitSlept
    \/ close /\ UNCHANGED <<script, serverVars, tool_call>>
    \/ /\ fe_sends < GuardMaxSends
       /\ send_raw_event(FeEnvelope("promptStart"), TRUE)
       /\ UNCHANGED <<script, serverVars, tool_call>>
    \/ SendDone
    \/ /\ audio_count < GuardMaxCalls
       /\ add_audio_chunk(NextAudio)
       /\ UNCHANGED <<script, serverVars, tool_call>>
    \/ ConsumeOutput
    \/ \E i \in Pumps :
          /\ recv_count < GuardMaxRecv
          /\ NextTaskId <= GuardMaxTools
          /\ EgressRecvEvent(i, ContentEndEv("TOOL"))
    \/ \E i \in Pumps : recv_count < GuardMaxRecv /\ EgressRecvError(i, "badjson")
    \/ \E i \in Pumps : recv_count < GuardMaxRecv /\ EgressRecvEnd(i, "eos")

SpecGuard == Init /\ [][GuardNext]_vars

\* The session is not active or has no stream; the front end calls
\* send_raw_event() on such a session.
NotOpen == ~is_active \/ stream = 0
SendOnClosed == fe_sends' = fe_sends + 1 /\ NotOpen

\* C35: while is_active is False or stream is None no step adds to what the
\* backend has received, whichever task takes it; and a send_raw_event() of
\* the front end called then returns at once, normally, leaving is_active,
\* the stream, the tasks, both queues, the tool fields and the correlation
\* names as they were.
C35_NoWriteOnceInactive ==
    /\ [][NotOpen => backend_in' = backend_in]_vars
    /\ [][SendOnClosed =>
             /\ returned' = {"send_raw_event"}
             /\ fe' = fe
             /\ UNCHANGED <<is_active, stream, response_task, audio_input_queue,
                            output_queue, nameVars, toolVars, tool_processing_tasks,
                            tasks, egress, ingress, closed_streams>>]_vars

\* A send_raw_event() of the front end has just returned on a session that is
\* no longer active: the backend did not receive its envelope, and a
\* dispatch that ran to its end and an audio record that was taken wrote
\* nothing either.
C35_Witness ==
    /\ returned = {"send_raw_event"}
    /\ ~is_active
    /\ fe_sends = 1
    /\ backend_in = <<>>
    /\ \E t \in TaskIds : tasks[t].outcome = "finished"
    /\ audio_log # <<>> /\ audio_input_queue = <<>>

\* ------------------------------------------------------------ stall runs
\* Bounds of the stall runs: chunks the backend delivers, tool tasks spawned.
StallMaxRecv == 3
StallMaxTools == 1

\* One session, initialised once and kept open: the backend sends events,
\* among them toolUse and contentEnd of type TOOL, every write to the backend
\* succeeds, and the client takes records from the output queue when it
\* pleases, possibly never.
StallNext ==
    \/ \E i \in Pumps : EgressStart(i)
    \/ \E i \in Pumps : IngressStart(i, TRUE)
    \/ \E t \in TaskIds : ToolStart(t, TRUE)
    \/ \E t \in TaskIds : ToolSendDone(t, TRUE)
    \/ \E t \in TaskIds : ToolPutWake(t, TRUE)
    \/ init_count = 0 /\ initialize_stream(TRUE) /\ UNCHANGED <<script, serverVars, tool_call>>
    \/ InitInvoked(TRUE)
    \/ InitSlept
    \/ ConsumeOutput
    \/ \E i \in Pumps :
          /\ recv_count < StallMaxRecv
          /\ EgressRecvEvent(i, ToolUseEv("getDateTool", ToolUseIds[recv_count + 1], "{}"))
    \/ \E i \in Pumps :
          /\ recv_count < StallMaxRecv
          /\ NextTaskId <= StallMaxTools
          /\ EgressRecvEvent(i, ContentEndEv("TOOL"))
    \/ \E i \in Pumps : recv_count < StallMaxRecv /\ EgressRecvEvent(i, TextOutputEv)

\* The event loop runs every task that can run, and the backend completes
\* every write; nothing is assumed of the client.
StallFairness ==
    /\ WF_vars(\E i \in Pumps : EgressStart(i))
    /\ WF_vars(\E t \in TaskIds : ToolStart(t, TRUE))
    /\ WF_vars(\E t \in TaskIds : ToolSendDone(t, TRUE))
    /\ WF_vars(\E t \in TaskIds : ToolPutWake(t, TRUE))

SpecStall == Init /\ [][StallNext]_vars /\ StallFairness

\* C36: on the session kept active, every dispatch that was spawned
\* eventually has written contentStart, toolResult and contentEnd to the
\* backend, whether or not the client takes anything from the output queue.
C36_DispatchSendsWithoutClient ==
    \A t \in TaskIds :
        (tasks[t].pc # "none") ~> (OfDispatch(backend_in, t) = DispatchEvents(t))

\* ------------------------------------------- what a dispatch was given
\* The response task reads the n-th chunk, a toolUse: the session holds its
\* name, id and content from then on.
ToolUseKept ==
    (recv_count' = recv_count + 1 /\ toolVars' # toolVars) =>
        /\ toolUseId' = ToolUseIds[recv_count']
        /\ toolName' = "getDateTool"
        /\ toolUseContent' = [dict |-> TRUE, content |-> "{}"]
\* A dispatch is spawned with the name, id and content the session holds,
\* and these are not touched by the step.
SpawnedWithHeld ==
    \A t \in TaskIds :
        (tasks[t].pc = "none" /\ tasks'[t].pc # "none") =>
            /\ tasks'[t].tool_name = toolName
            /\ tasks'[t].tool_use_id = toolUseId
            /\ tasks'[t].tool_use_content = toolUseContent
            /\ toolVars' = toolVars
\* What a dispatch was given stays what it was.
GivenIsKept ==
    \A t \in TaskIds :
        tasks[t].pc # "none" =>
            /\ tasks'[t].tool_name = tasks[t].tool_name
            /\ tasks'[t].tool_use_id = tasks[t].tool_use_id
            /\ tasks'[t].tool_use_content = tasks[t].tool_use_content
\* Every contentStart of the dispatch t carries the id it was given and every
\* toolResult the result of the handler for the name and content it was
\* given.
EmitsGiven(t) ==
    \A e \in {egress_log[m] : m \in 1..Len(egress_log)}
               \cup {backend_in[m] : m \in 1..Len(backend_in)} :
        e.contentName = Uuid[t] =>
            /\ e.name = "contentStart" => e.toolUseId = tasks[t].tool_use_id
            /\ e.name = "toolResult" =>
                  e.content = processToolUse(Spelling(tasks[t].tool_name),
                                             tasks[t].tool_use_content)

JsonMaxRecv == 2

\* The JSON values of the runs: values that are not objects, an object
\* without "event", events that are null or empty, a toolUse with and
\* without its keys, and a textOutput.
JsonValues ==
    {JsonValue(shape, "absent", FALSE, FALSE) :
        shape \in {"array", "string", "number", "null", "object"}}
    \cup {JsonValue("object", event, FALSE, FALSE) :
            event \in {"null", "empty", "textOutput"}}
    \cup {JsonValue("object", "toolUse", has_name, has_id) :
            has_name \in BOOLEAN, has_id \in BOOLEAN}

\* One session, initialised once: every chunk of the backend is JSON, of
\* any of these values; the front end may call close() at any moment and
\* the client may or may not drain the output queue.
JsonNext ==
    \/ \E i \in Pumps : EgressStart(i)
    \/ \E i \in Pumps : EgressCancelled(i)
    \/ \E i \in Pumps : IngressStart(i, TRUE)
    \/ CloseStreamClosed
    \/ CloseResponseDone
    \/ init_count = 0 /\ initialize_stream(TRUE) /\ UNCHANGED <<script, serverVars, tool_call>>
    \/ InitInvoked(TRUE)
    \/ InitSlept
    \/ close /\ UNCHANGED <<script, serverVars, tool_call>>
    \/ ConsumeOutput
    \/ \E i \in Pumps, js \in JsonValues :
          recv_count < JsonMaxRecv /\ EgressRecvJson(i, js, ToolUseIds[recv_count + 1])

SpecJson == Init /\ [][JsonNext]_vars

\* The three kinds of value the claim names.
NotAnObject(js) == js.shape # "object"
EmptyEvent(js) == js.shape = "object" /\ js.event = "empty"
ToolUseLacking(js) ==
    js.shape = "object" /\ js.event = "toolUse" /\ ~(js.toolName /\ js.toolUseId)
\* The response task reads a chunk that is JSON of one of the three kinds.
ReadsUnusable ==
    /\ recv_count' = recv_count + 1
    /\ last_recv'.kind = "json"
    /\ \/ NotAnObject(last_recv'.json)
       \/ EmptyEvent(last_recv'.json)
       \/ ToolUseLacking(last_recv'.json)

\* C38: a chunk that is JSON but not an object, or whose event is the empty
\* object, or a toolUse without toolName or toolUseId, is not put on the
\* output queue; the response task that read it leaves its loop as after
\* any other exception, and is_active is False.
C38_UnusableJsonEndsPump ==
    [][ReadsUnusable =>
          /\ output_queue' = output_queue
          /\ egress_log' = egress_log
          /\ ~is_active'
          /\ egress'[last_recv'.by].pc = "done"
          /\ egress'[last_recv'.by].outcome = "exited"
          /\ UNCHANGED <<tasks, tool_processing_tasks, stream>>]_vars

\* The second chunk carried an empty event object: the response task has
\* left its loop on the session it found active, and the event of the first
\* chunk is still the only record of the output queue.
C38_Witness ==
    /\ recv_count = 2
    /\ last_recv.kind = "json"
    /\ EmptyEvent(last_recv.json)
    /\ egress[last_recv.by].outcome = "exited"
    /\ ~is_active
    /\ stream # 0
    /\ fe.pc = "idle"
    /\ Len(output_queue) = 1
    /\ output_queue[1].seq = 1

\* ------------------------------------------------- the three credentials
\* What IMDS can answer in the credential runs: the results above, and
\* successes whose body lacks one of the three keys.
CredsResults ==
    ImdsResults \cup {ImdsLacking(key) : key \in {"AccessKeyId", "SecretAccessKey", "Token"}}

CredsNext ==
    \/ \E r \in CredsResults : startup_event(r)
    \/ \E t \in RefreshIds, r \in CredsResults : RefreshStart(t, r)
    \/ \E t \in RefreshIds, r \in CredsResults : RefreshWake(t, r)
    \/ \E t \in RefreshIds : RefreshCancelled(t)
    \/ shutdown_event
    \/ ShutdownDone
    \/ \E to \in Instants : Advance(to)

SpecCreds == ServerInit /\ [][CredsNext]_vars

\* The three variables hold values of one origin: the same result of IMDS,
\* or the environment the process was started with.
SameResponse ==
    /\ environ.AWS_ACCESS_KEY_ID.from = environ.AWS_SECRET_ACCESS_KEY.from
    /\ environ.AWS_SECRET_ACCESS_KEY.from = environ.AWS_SESSION_TOKEN.from

\* C40: while the server runs, the access key id, the secret access key and
\* the session token in os.environ come from one and the same result of
\* IMDS, and a step that changes any of them sets all three from the result
\* just retrieved.
C40_CredentialsFromOneResponse ==
    /\ [](server.shutdown # "failed" => SameResponse)
    /\ [][(server'.shutdown # "failed" /\ environ' # environ) =>
             environ' = Publish(Len(imds'))]_vars

====
